---------------------------- MODULE Spec2Model ----------------------------
(***************************************************************************)
(* Model of the side-quest observability event bus: the EventStore ring    *)
(* buffer (store.ts), the HTTP ingress handlers and the WebSocket topic    *)
(* pub/sub of the server (server.ts), and the envelope factory             *)
(* (schema.ts).                                                            *)
(*                                                                         *)
(* Strings whose content the code inspects are sequences of tokens, so     *)
(* that concatenation is \o, the empty string is << >> and a template      *)
(* such as `events.${type}` is computed rather than assumed distinct.      *)
(* Timestamps are sequences of single characters standing for the tail of  *)
(* an ISO-8601 string after the common prefix "2024-01-01T00:00:0"; they   *)
(* are compared by UTF-16 code unit, as JavaScript compares strings.       *)
(***************************************************************************)
EXTENDS Integers, Sequences, FiniteSets, TLC

VARIABLES
    capacity,     \* EventStore.capacity (constructor option)
    buffer,       \* EventStore.buffer: slot index 0..capacity-1 -> envelope or Hole
    writeIndex,   \* EventStore.writeIndex
    count,        \* EventStore.count
    pushLog,      \* history: every envelope passed to push, in call order
    now,          \* wall clock, in ticks of 500 ms
    nanoCount,    \* number of ids handed out by nanoId()
    conns,        \* WebSocket connections: id -> [state, topics, inbox, joined]
    accepted,     \* history: every envelope an ingress route answered 201 for
    response,     \* the last HTTP response: [status, route]
    persistPath,  \* EventStore.persistPath: None (null) or Some(path)
    persistErrors,\* EventStore.persistErrors
    voiceMode,    \* VoiceSystemConfig.mode: "on" or "off" (no PlaybackQueue)
    config,       \* PlaybackQueue.config: [maxDepth, maxAgeMs, maxPlayMs]
    queue,        \* PlaybackQueue.queue: pending items [filePath, enqueuedAt]
    playing,      \* PlaybackQueue.playing
    currentProc,  \* PlaybackQueue.currentProc: None or Some(index into procs)
    procs,        \* every player process spawned, in spawn order
    drains,       \* suspended activations of drain(): what each one awaits
    enqueueLog,   \* history: every item passed to enqueue, in call order
    dequeueLog,   \* history: every item shifted by drain, with its outcome
    stopLog,      \* history: the items pending at each call of stop()
    files,        \* discovery directory: file name -> None or Some(content)
    servers,      \* server processes: pid -> [state, port, wrote]
    startResult,  \* outcome of the last startServer call
    readResult,   \* what the last call of readEventServerPort returned
    journal,      \* files of the journal: suffix 0 (active), 1, 2, ... -> size
    lastWarnAt,   \* EventStore.lastWarnAt
    warnLog,      \* history: when the store wrote a warning to stderr
    clientOpts,   \* connectEventClient options: [reconnectDelay, autoReconnect]
    closed,       \* connectEventClient: closed
    ws,           \* connectEventClient: ws, None or Some(index into sockets)
    sockets,      \* every WebSocket the client created: its state
    reconnectTimer, \* connectEventClient: reconnectTimer, None or Some(index)
    timers,       \* every timer the client set: "pending", "fired", "cleared"
    attempt,      \* connectEventClient: attempt
    lastDelay,    \* history: the delay of the timer set last, None at first
    closesSinceOpen, \* history: close events since the last open event
    callbacks,    \* history: number of onEvent and onError calls
    emitFailures, \* emitter: emitFailures
    lastEmitFailureLogAt, \* emitter: lastEmitFailureLogAt
    emitLog,      \* history: when the emitter wrote a failure line to stderr
    calls,        \* every emitEvent call: [startedAt, state, timer]
    created,      \* history: every createEvent call: [context, event]
    feed,         \* dashboard: number of envelopes the server has stored
    events,       \* useEventStream: events.value, the ids of its envelopes
    pendingEvents,\* useEventStream: pendingEvents, ids
    flushScheduled, \* useEventStream: flushScheduled
    fetches,      \* every fetchHistory call: [state, knownIds, history, offset]
    dashWs,       \* useEventStream: ws, "none", "connecting", "open", "closed"
    frames,       \* WebSocket frames on their way to the dashboard, ids
    dashTimer,    \* useEventStream: a reconnect timer is pending
    connects,     \* history: number of WebSockets the dashboard created
    inflight      \* ingress requests: [route, eventName, req, state]

storeVars ==
    <<capacity, buffer, writeIndex, count, pushLog, persistPath, persistErrors,
      journal, lastWarnAt, warnLog>>

voiceVars ==
    <<voiceMode, config, queue, playing, currentProc, procs, drains,
      enqueueLog, dequeueLog, stopLog>>

lifeVars == <<files, servers, startResult, readResult>>

clientVars ==
    <<clientOpts, closed, ws, sockets, reconnectTimer, timers, attempt,
      lastDelay, closesSinceOpen, callbacks>>

emitVars == <<emitFailures, lastEmitFailureLogAt, emitLog, calls>>

factoryVars == <<created>>

dashVars ==
    <<feed, events, pendingEvents, flushScheduled, fetches, dashWs, frames,
      dashTimer, connects>>

\* The processes outside the server
outsideVars == <<clientVars, emitVars, factoryVars, dashVars>>

\* and the requests they have sent that the server is still reading
peerVars == <<outsideVars, inflight>>

vars == <<storeVars, now, nanoCount, conns, accepted, response, voiceVars,
          lifeVars, peerVars>>

-----------------------------------------------------------------------------
(* Bounds of the model *)

MaxCapacity == 3
MaxPushes == 4
MaxTick == 1
MaxConns == 2
MaxPosts == 2
MaxIngress == 1
MaxServers == 2
MaxHookPosts == 3
MaxLifePosts == 1
MaxReads == 2

-----------------------------------------------------------------------------
(* Sequence helpers *)

Min(a, b) == IF a < b THEN a ELSE b
Max(a, b) == IF a > b THEN a ELSE b

\* The last n elements of s (all of s when n >= Len(s), none when n <= 0).
LastN(s, n) ==
    IF n <= 0 THEN << >>
    ELSE SubSeq(s, Len(s) - Min(n, Len(s)) + 1, Len(s))

\* Array.prototype.slice(start, end) on a 1-based sequence holding a 0-based
\* array: a negative index counts from the end, and both are clamped.
SliceIndex(len, i) == IF i < 0 THEN Max(len + i, 0) ELSE Min(i, len)

Slice(arr, start, end) ==
    LET from == SliceIndex(Len(arr), start)
        to == SliceIndex(Len(arr), end)
    IN  SubSeq(arr, from + 1, to)

SliceFrom(arr, start) == Slice(arr, start, Len(arr))

-----------------------------------------------------------------------------
(* Timestamps: strings compared by code unit, and the instant they denote *)

Digits == <<"0", "1", "2", "3", "4", "5", "6", "7", "8", "9">>

CodeUnit(c) ==
    CASE c = "." -> 46
      [] c = "Z" -> 90
      [] c = "x" -> 120
      [] OTHER -> 47 + (CHOOSE d \in 1..10 : Digits[d] = c)

\* JavaScript's a > b on strings: the first differing code unit decides, and
\* a proper prefix is the smaller string.
RECURSIVE StrGreater(_, _)
StrGreater(a, b) ==
    IF a = << >> THEN FALSE
    ELSE IF b = << >> THEN TRUE
    ELSE IF CodeUnit(Head(a)) # CodeUnit(Head(b))
         THEN CodeUnit(Head(a)) > CodeUnit(Head(b))
    ELSE StrGreater(Tail(a), Tail(b))

\* new Date(t).toISOString(): always the 24-character form with milliseconds.
ToISOString(t) ==
    <<Digits[(t \div 2) + 1], ".", IF t % 2 = 1 THEN "5" ELSE "0", "0", "0", "Z">>

\* The same instant written without a fraction ("...T00:00:0sZ"), which
\* Date.parse accepts as well; only whole seconds have this form.
SecondsForm(t) == <<Digits[(t \div 2) + 1], "Z">>

NaN == -1

DigitValue(c) == (CHOOSE d \in 1..10 : Digits[d] = c) - 1

IsDigit(c) == \E d \in 1..10 : Digits[d] = c

\* Date.parse on the strings of the model: the instant in ticks, or NaN.
DateParse(s) ==
    IF Len(s) = 6 /\ IsDigit(s[1]) /\ s[2] = "." /\ s[3] \in {"0", "5"}
         /\ s[4] = "0" /\ s[5] = "0" /\ s[6] = "Z"
    THEN 2 * DigitValue(s[1]) + (IF s[3] = "5" THEN 1 ELSE 0)
    ELSE IF Len(s) = 2 /\ IsDigit(s[1]) /\ s[2] = "Z"
    THEN 2 * DigitValue(s[1])
    ELSE NaN

Ticks == 0..MaxTick

CanonicalTimestamps == {ToISOString(t) : t \in Ticks}

IsoTimestamps ==
    CanonicalTimestamps \cup {SecondsForm(t) : t \in {u \in Ticks : u % 2 = 0}}

-----------------------------------------------------------------------------
(* Envelopes *)

Hole == [hole |-> TRUE]

EmptyObject == [k |-> "object", v |-> << >>]

Envelope(id, timestamp, type, app, appRoot, source, correlationId, data) ==
    [schemaVersion |-> <<"1.0.0">>, id |-> id, timestamp |-> timestamp,
     type |-> type, app |-> app, appRoot |-> appRoot, source |-> source,
     correlationId |-> correlationId, data |-> data]

\* nanoId(): a fresh id on every call.
NanoId(n) == <<"nano", ToString(n)>>

StoreTypes == {<<"worktree", ".", "created">>, <<"worktree", ".", "deleted">>}

\* What a direct caller of EventStore.push passes: the k-th push carries a
\* fresh id, any type and a timestamp in the form createEvent gives it
\* (toISOString), not necessarily increasing from push to push.
PushInputs(k) ==
    {Envelope(NanoId(k), ts, ty, <<"app">>, <<"/", "root">>, <<"cli">>,
              <<"c0ffee00">>, EmptyObject) :
        ts \in CanonicalTimestamps, ty \in StoreTypes}

-----------------------------------------------------------------------------
(* EventStore *)

\* EventStore.toArray without the stitch of the two halves of a full buffer.
ToArrayUnstitched ==
    LET arr == [i \in 1..capacity |-> buffer[i - 1]]
    IN  Slice(arr, 0, count)

\* EventStore.toArray
ToArray ==
    LET arr == [i \in 1..capacity |-> buffer[i - 1]]
    IN  IF count < capacity
        THEN Slice(arr, 0, count)
        ELSE SliceFrom(arr, writeIndex) \o Slice(arr, 0, writeIndex)

\* EventStore.size
Size == count

\* An optional value: None when it is undefined or null, Some(x) when it is x.
None == << >>
Some(x) == <<x>>

\* Long strings are run-length encoded: a sequence of runs of one character.
Run(ch, n) == [ch |-> ch, n |-> n]

RECURSIVE RunLength(_)
RunLength(s) == IF s = << >> THEN 0 ELSE Head(s).n + RunLength(Tail(s))

MAX_JSONL_BYTES == 10 * 1024 * 1024
MAX_ROTATED_FILES == 5
PERSIST_WARN_INTERVAL_MS == 30000

\* Date.now(): milliseconds since an origin one minute before the run. The
\* real origin lies much further back; the code only compares differences
\* with 30 s, which cannot tell the two apart.
DateNow == 2 * 30000 + 500 * now

\* The journal: the active file has suffix 0, the file `${persistPath}.${i}`
\* has suffix i; each is missing (None) or has a size in bytes.
Suffixes == 0..(MAX_ROTATED_FILES + 1)

NoJournal == [i \in Suffixes |-> None]

\* Bun.file(path).size: 0 for a missing file
FileSize(j) == IF j[0] = None THEN 0 ELSE j[0][1]

\* renameSync(from, to): replaces the target
Rename(j, from, to) == [j EXCEPT ![to] = j[from], ![from] = None]

\* The renames of rotateIfNeeded from index i down, the active file last;
\* failAt names the rename that throws (None: none does), after which the
\* catch block leaves everything as it is.
RECURSIVE RotateFrom(_, _, _)
RotateFrom(j, i, failAt) ==
    IF i = 0
    THEN IF failAt = Some(0) THEN j ELSE Rename(j, 0, 1)
    ELSE IF j[i] = None
    THEN RotateFrom(j, i - 1, failAt)
    ELSE IF failAt = Some(i) THEN j
    ELSE RotateFrom(Rename(j, i, i + 1), i - 1, failAt)

\* rotateIfNeeded
RotateIfNeeded(j, failAt) ==
    IF FileSize(j) < MAX_JSONL_BYTES THEN j
    ELSE RotateFrom(j, MAX_ROTATED_FILES - 1, failAt)

\* The renames that can throw in rotateIfNeeded
RotationFaults(j) ==
    IF FileSize(j) < MAX_JSONL_BYTES THEN {None}
    ELSE {None} \cup {Some(i) : i \in {0} \cup {k \in 1..(MAX_ROTATED_FILES - 1) :
                                                 j[k] # None}}

\* The length of `${JSON.stringify(event)}\n` in bytes. Of the text of the
\* event only its long member, data.payload (run-length encoded), is
\* counted, and the newline.
LineBytes(event) ==
    1 + (IF event.data.k = "object" /\ "payload" \in DOMAIN event.data.v
         THEN RunLength(event.data.v.payload.v)
         ELSE 0)

\* appendToFileSync(path, line): creates the file if it is missing
AppendLine(j, bytes) == [j EXCEPT ![0] = Some(FileSize(j) + bytes)]

\* The catch block of push: count the failure and warn at most once per
\* interval.
PersistFailed ==
    /\ persistErrors' = persistErrors + 1
    /\ IF DateNow - lastWarnAt >= PERSIST_WARN_INTERVAL_MS
       THEN /\ lastWarnAt' = DateNow
            /\ warnLog' = Append(warnLog, DateNow)
       ELSE UNCHANGED <<lastWarnAt, warnLog>>

\* The journal part of push in which the catch block of rotateIfNeeded
\* counts the failed rotation as a persist error.
PersistCountingRotation(event) ==
    IF persistPath = None
    THEN UNCHANGED <<persistErrors, journal, lastWarnAt, warnLog>>
    ELSE \E failAt \in RotationFaults(journal), appendFails \in BOOLEAN :
           LET rotated == RotateIfNeeded(journal, failAt)
           IN  IF appendFails
               THEN journal' = rotated /\ PersistFailed
               ELSE /\ journal' = AppendLine(rotated, LineBytes(event))
                    /\ persistErrors' =
                         persistErrors + (IF failAt = None THEN 0 ELSE 1)
                    /\ UNCHANGED <<lastWarnAt, warnLog>>

\* The journal part of push: with a persistPath, rotateIfNeeded (whose
\* failures it swallows itself) and then the append, which succeeds or
\* throws; a throw is counted, reported at most once per interval, and
\* swallowed.
Persist(event) ==
    IF persistPath = None
    THEN UNCHANGED <<persistErrors, journal, lastWarnAt, warnLog>>
    ELSE \E failAt \in RotationFaults(journal), appendFails \in BOOLEAN :
           LET rotated == RotateIfNeeded(journal, failAt)
           IN  IF appendFails
               THEN journal' = rotated /\ PersistFailed
               ELSE /\ journal' = AppendLine(rotated, LineBytes(event))
                    /\ UNCHANGED <<persistErrors, lastWarnAt, warnLog>>

\* EventStore.push without the capacity guard on count.
PushUncapped(event) ==
    /\ buffer' = [buffer EXCEPT ![writeIndex] = event]
    /\ writeIndex' = (writeIndex + 1) % capacity
    /\ count' = count + 1
    /\ pushLog' = Append(pushLog, event)
    /\ Persist(event)
    /\ UNCHANGED <<capacity, persistPath>>

\* EventStore.push that starts over at slot 0 one slot early.
PushEarlyWrap(event) ==
    /\ buffer' = [buffer EXCEPT ![writeIndex] = event]
    /\ writeIndex' = IF capacity > 1 THEN (writeIndex + 1) % (capacity - 1) ELSE 0
    /\ count' = IF count < capacity THEN count + 1 ELSE count
    /\ pushLog' = Append(pushLog, event)
    /\ Persist(event)
    /\ UNCHANGED <<capacity, persistPath>>

\* EventStore.push
Push(event) ==
    /\ buffer' = [buffer EXCEPT ![writeIndex] = event]
    /\ writeIndex' = (writeIndex + 1) % capacity
    /\ count' = IF count < capacity THEN count + 1 ELSE count
    /\ pushLog' = Append(pushLog, event)
    /\ Persist(event)
    /\ UNCHANGED <<capacity, persistPath>>

Filter(type, since, limit) == [type |-> type, since |-> since, limit |-> limit]

\* The number NaN where the model's numbers are integers: an integer that
\* no input of the model parses to. NaN <= 0 is false, and slice(-NaN) is
\* slice(0).
NotANumber == -999999

\* JavaScript truthiness of an optional string: undefined and "" are falsy.
Truthy(opt) == opt # None /\ opt[1] # << >>

\* EventStore.query with slice(0, limit): the oldest instead of the newest.
QueryOldest(filter) ==
    LET all == ToArray
        byType ==
            IF Truthy(filter.type)
            THEN SelectSeq(all, LAMBDA e : e.type = filter.type[1])
            ELSE all
        bySince ==
            IF Truthy(filter.since)
            THEN SelectSeq(byType,
                           LAMBDA e : StrGreater(e.timestamp, filter.since[1]))
            ELSE byType
    IN  IF filter.limit # None
        THEN IF filter.limit[1] <= 0 THEN << >>
             ELSE Slice(bySince, 0, filter.limit[1])
        ELSE bySince

\* EventStore.query
Query(filter) ==
    LET all == ToArray
        byType ==
            IF Truthy(filter.type)
            THEN SelectSeq(all, LAMBDA e : e.type = filter.type[1])
            ELSE all
        bySince ==
            IF Truthy(filter.since)
            THEN SelectSeq(byType,
                           LAMBDA e : StrGreater(e.timestamp, filter.since[1]))
            ELSE byType
    IN  IF filter.limit # None
        THEN IF filter.limit[1] = NotANumber THEN SliceFrom(bySince, 0)
             ELSE IF filter.limit[1] <= 0 THEN << >>
             ELSE SliceFrom(bySince, -filter.limit[1])
        ELSE bySince

\* EventStore.last
Last(n) == IF n <= 0 THEN << >> ELSE SliceFrom(ToArray, -n)

\* The typeCounts loop with counts[type] ?? 0 + 1, which parses as
\* counts[type] ?? (0 + 1) and never counts past 1.
RECURSIVE CountTypesPrecedence(_)
CountTypesPrecedence(arr) ==
    IF arr = << >> THEN << >>
    ELSE LET counts == CountTypesPrecedence(SubSeq(arr, 1, Len(arr) - 1))
             type == arr[Len(arr)].type
         IN  [t \in DOMAIN counts \cup {type} |->
                 IF t \in DOMAIN counts THEN counts[t] ELSE 1]

\* EventStore.typeCounts: one pass over toArray(), counts[type] += 1.
RECURSIVE CountTypes(_)
CountTypes(arr) ==
    IF arr = << >> THEN << >>
    ELSE LET counts == CountTypes(SubSeq(arr, 1, Len(arr) - 1))
             type == arr[Len(arr)].type
             before == IF type \in DOMAIN counts THEN counts[type] ELSE 0
         IN  [t \in DOMAIN counts \cup {type} |->
                 IF t = type THEN before + 1 ELSE counts[t]]

TypeCounts == CountTypes(ToArray)

-----------------------------------------------------------------------------
(* JSON values of a parsed request body *)

Undefined == [k |-> "undefined", v |-> << >>]   \* the key is absent
JNull == [k |-> "null", v |-> << >>]
JTrue == [k |-> "boolean", v |-> TRUE]
JNumber == [k |-> "number", v |-> 42]
JArray == [k |-> "array", v |-> << >>]
JStr(s) == [k |-> "string", v |-> s]
JObj(fields) == [k |-> "object", v |-> fields]

\* typeof value === 'string'
IsString(value) == value.k = "string"

\* String.prototype.trim().length > 0: some token is not white space.
TrimIsNonEmpty(s) == \E i \in 1..Len(s) : s[i] # " "

\* isNonEmptyString
IsNonEmptyString(value) == IsString(value) /\ TrimIsNonEmpty(value.v)

\* isValidTimestamp
IsValidTimestamp(s) == DateParse(s) # NaN

-----------------------------------------------------------------------------
(* Envelope factory (schema.ts) *)

\* generateCorrelationId(): a fresh 8-character hex token.
GenerateCorrelationId(n) == <<"corr", ToString(n)>>

\* createEvent; context.correlationId is None when the caller left it out.
\* One call takes the next id of nanoId() and the current clock.
CreateEvent(type, data, context) ==
    Envelope(NanoId(nanoCount + 1), ToISOString(now), type, context.app,
             context.appRoot, context.source,
             IF context.correlationId # None
             THEN context.correlationId[1]
             ELSE GenerateCorrelationId(nanoCount + 1),
             data)

-----------------------------------------------------------------------------
(* Request bodies *)

MAX_BODY_BYTES == 1048576

\* A request: the Content-Length header (None when absent), the number of
\* bytes actually read, and what JSON.parse makes of them ("invalid" when it
\* throws).
Request(contentLength, byteLength, parsed) ==
    [contentLength |-> contentLength, byteLength |-> byteLength,
     parsed |-> parsed]

InvalidJson == [k |-> "invalid", v |-> << >>]

Status(code, error) == [ok |-> FALSE, status |-> code, error |-> error]

\* parseJsonObjectBody
ParseJsonObjectBody(req) ==
    IF req.contentLength # None /\ req.contentLength[1] > MAX_BODY_BYTES
    THEN Status(413, "Request body too large (max 1MB)")
    ELSE IF req.byteLength > MAX_BODY_BYTES
    THEN Status(413, "Request body too large (max 1MB)")
    ELSE IF req.parsed = InvalidJson
    THEN Status(400, "Invalid JSON body")
    ELSE IF req.parsed.k # "object"
    THEN Status(400, "Body must be a JSON object")
    ELSE [ok |-> TRUE, body |-> req.parsed.v]

\* body.field of a parsed object: Undefined when the key is absent.
Get(body, field) == IF field \in DOMAIN body THEN body[field] ELSE Undefined

\* validateFullEnvelope
ValidateFullEnvelope(body) ==
    IF Get(body, "schemaVersion") # JStr(<<"1.0.0">>)
    THEN [ok |-> FALSE, error |-> "Unknown schemaVersion"]
    ELSE IF ~IsNonEmptyString(Get(body, "id"))
    THEN [ok |-> FALSE, error |-> "Missing or invalid id field"]
    ELSE IF ~IsNonEmptyString(Get(body, "timestamp"))
            \/ ~IsValidTimestamp(Get(body, "timestamp").v)
    THEN [ok |-> FALSE, error |-> "Missing or invalid timestamp field"]
    ELSE IF ~IsNonEmptyString(Get(body, "type"))
    THEN [ok |-> FALSE, error |-> "Missing or invalid type field"]
    ELSE IF ~IsNonEmptyString(Get(body, "app"))
    THEN [ok |-> FALSE, error |-> "Missing or invalid app field"]
    ELSE IF ~IsNonEmptyString(Get(body, "appRoot"))
    THEN [ok |-> FALSE, error |-> "Missing or invalid appRoot field"]
    ELSE IF Get(body, "source") # JStr(<<"cli">>)
            /\ Get(body, "source") # JStr(<<"hook">>)
    THEN [ok |-> FALSE, error |-> "Missing or invalid source field"]
    ELSE IF ~IsNonEmptyString(Get(body, "correlationId"))
    THEN [ok |-> FALSE, error |-> "Missing or invalid correlationId field"]
    ELSE IF Get(body, "data") = Undefined
    THEN [ok |-> FALSE, error |-> "Missing data field"]
    ELSE [ok |-> TRUE,
          event |-> Envelope(body.id.v, body.timestamp.v, body.type.v,
                             body.app.v, body.appRoot.v, body.source.v,
                             body.correlationId.v, body.data)]

-----------------------------------------------------------------------------
(* Enrichment pipeline for POST /events/:eventName *)

\* EVENT_NAME_MAP
EVENT_NAME_MAP ==
    [n \in {<<"session", "-", "start">>, <<"pre", "-", "tool", "-", "use">>,
            <<"post", "-", "tool", "-", "use">>,
            <<"post", "-", "tool", "-", "use", "-", "failure">>, <<"stop">>} |->
        CASE n = <<"session", "-", "start">> -> <<"hook", ".", "session_start">>
          [] n = <<"pre", "-", "tool", "-", "use">> -> <<"hook", ".", "pre_tool_use">>
          [] n = <<"post", "-", "tool", "-", "use">> -> <<"hook", ".", "post_tool_use">>
          [] n = <<"post", "-", "tool", "-", "use", "-", "failure">>
               -> <<"hook", ".", "post_tool_use_failure">>
          [] n = <<"stop">> -> <<"hook", ".", "stop">>]

\* name.replace(/-/g, '_')
ReplaceDashes(name) ==
    [i \in 1..Len(name) |-> IF name[i] = "-" THEN "_" ELSE name[i]]

\* EVENT_NAME_MAP is an object literal, so EVENT_NAME_MAP[name] also finds
\* what the object inherits from Object.prototype: functions for
\* "constructor" and "toString", the prototype object for "__proto__". The
\* model writes such a value as the text String() gives for it.
ObjectPrototypeMembers == {<<"constructor">>, <<"toString">>, <<"__proto__">>}

InheritedMember(name) ==
    CASE name = <<"constructor">> -> <<"function Object() { [native code] }">>
      [] name = <<"toString">> -> <<"function toString() { [native code] }">>
      [] name = <<"__proto__">> -> <<"[object Object]">>

\* mapEventName
MapEventName(name) ==
    IF name \in DOMAIN EVENT_NAME_MAP
    THEN EVENT_NAME_MAP[name]
    ELSE IF name \in ObjectPrototypeMembers
    THEN InheritedMember(name)
    ELSE <<"hook", ".">> \o ReplaceDashes(name)

\* String.prototype.slice(0, m) on a run-length encoded string.
RECURSIVE RunPrefix(_, _)
RunPrefix(s, m) ==
    IF s = << >> \/ m <= 0 THEN << >>
    ELSE IF Head(s).n <= m
    THEN <<Head(s)>> \o RunPrefix(Tail(s), m - Head(s).n)
    ELSE <<Run(Head(s).ch, m)>>

\* a ?? b
Coalesce(a, b) == IF a = Undefined \/ a = JNull THEN b ELSE a

\* JSON.stringify of a string value of the model (no character needs an
\* escape): the content between two double quotes.
JsonStringifyString(value) == <<Run("quote", 1)>> \o value.v \o <<Run("quote", 1)>>

TRUNCATE_MAX_LEN == 2000

\* The characters of a word, one run each
Spell(word) == [i \in 1..Len(word) |-> Run(word[i], 1)]

\* JSON.stringify of the values of the model: a string between quotes, 42,
\* true, null, [], and an object of one member "command".
RECURSIVE JsonText(_)
JsonText(value) ==
    CASE value.k = "string" -> JsonStringifyString(value)
      [] value.k = "number" -> Spell(<<"4", "2">>)
      [] value.k = "boolean" -> Spell(<<"t", "r", "u", "e">>)
      [] value.k = "null" -> Spell(<<"n", "u", "l", "l">>)
      [] value.k = "array" -> Spell(<<"[", "]">>)
      [] value.k = "object" ->
           Spell(<<"{", "quote", "c", "o", "m", "m", "a", "n", "d", "quote",
                   ":">>)
             \o JsonText(value.v.command) \o Spell(<<"}">>)

\* truncateField that keeps the value only below the limit.
TruncateFieldStrict(value) ==
    LET str == JsonText(Coalesce(value, JStr(<< >>)))
    IN  IF RunLength(str) < TRUNCATE_MAX_LEN
        THEN value
        ELSE JStr(RunPrefix(str, TRUNCATE_MAX_LEN) \o <<Run(".", 3)>>)

\* truncateField
TruncateField(value) ==
    LET str == JsonText(Coalesce(value, JStr(<< >>)))
    IN  IF RunLength(str) <= TRUNCATE_MAX_LEN
        THEN value
        ELSE JStr(RunPrefix(str, TRUNCATE_MAX_LEN) \o <<Run(".", 3)>>)

\* String(value) for the values of the model
StringOf(value) ==
    CASE value.k = "string" -> value
      [] value.k = "boolean" -> JStr(<<"true">>)
      [] value.k = "number" -> JStr(<<"42">>)
      [] value.k = "array" -> JStr(<< >>)
      [] OTHER -> JStr(<<"[object Object]">>)

\* extractEventFields
ExtractEventFields(eventName, raw) ==
    CASE eventName = <<"session", "-", "start">> ->
            JObj([hookEvent |-> JStr(<<"session_start">>),
                  sessionId |-> Get(raw, "session_id"),
                  source |-> Coalesce(Get(raw, "source"), JStr(<<"unknown">>)),
                  model |-> Coalesce(Get(raw, "model"), JStr(<< >>)),
                  agentType |-> Get(raw, "agent_type"),
                  permissionMode |-> Get(raw, "permission_mode")])
      [] eventName = <<"pre", "-", "tool", "-", "use">> ->
            JObj([hookEvent |-> JStr(<<"pre_tool_use">>),
                  sessionId |-> Get(raw, "session_id"),
                  toolName |-> Coalesce(Get(raw, "tool_name"), JStr(<< >>)),
                  toolInputPreview |-> TruncateField(Get(raw, "tool_input")),
                  permissionMode |-> Get(raw, "permission_mode")])
      [] eventName = <<"post", "-", "tool", "-", "use">> ->
            JObj([hookEvent |-> JStr(<<"post_tool_use">>),
                  sessionId |-> Get(raw, "session_id"),
                  toolName |-> Coalesce(Get(raw, "tool_name"), JStr(<< >>)),
                  toolUseId |-> Coalesce(Get(raw, "tool_use_id"), JStr(<< >>)),
                  toolResultPreview |-> TruncateField(Get(raw, "tool_result")),
                  permissionMode |-> Get(raw, "permission_mode")])
      [] eventName = <<"post", "-", "tool", "-", "use", "-", "failure">> ->
            JObj([hookEvent |-> JStr(<<"post_tool_use_failure">>),
                  sessionId |-> Get(raw, "session_id"),
                  toolName |-> Coalesce(Get(raw, "tool_name"), JStr(<< >>)),
                  toolUseId |-> Coalesce(Get(raw, "tool_use_id"), JStr(<< >>)),
                  toolError |-> StringOf(Coalesce(Get(raw, "tool_error"),
                                                  JStr(<< >>))),
                  permissionMode |-> Get(raw, "permission_mode")])
      [] eventName = <<"stop">> ->
            JObj([hookEvent |-> JStr(<<"stop">>),
                  sessionId |-> Get(raw, "session_id"),
                  transcriptPath |-> Get(raw, "transcript_path"),
                  permissionMode |-> Get(raw, "permission_mode")])
      [] OTHER ->
            JObj([hookEvent |-> JStr(eventName),
                  sessionId |-> Get(raw, "session_id"),
                  raw |-> JObj(raw)])

-----------------------------------------------------------------------------
(* WebSocket topics (Bun pub/sub) *)

EventsAll == <<"events", ".", "all">>

\* `events.${type}`
TypedTopic(type) == <<"events", ".">> \o type

\* JSON.stringify(envelope): members of data whose value is undefined are
\* left out of the text.
JsonStringify(envelope) ==
    IF envelope.data.k = "object"
    THEN [envelope EXCEPT !.data.v =
            LET present == {f \in DOMAIN envelope.data.v :
                               envelope.data.v[f] # Undefined}
            IN  [f \in present |-> envelope.data.v[f]]]
    ELSE envelope

\* server.publish(topic, message): one frame to every open socket
\* subscribed to the topic.
Publish(cs, topic, message) ==
    [c \in DOMAIN cs |->
        IF cs[c].state = "open" /\ topic \in cs[c].topics
        THEN [cs[c] EXCEPT !.inbox = Append(@, message)]
        ELSE cs[c]]

\* The topics of a socket after websocket.open; typeParam is
\* url.searchParams.get('type'), None when the URL has no type parameter.
TopicsAfterOpen(typeParam) ==
    LET subscribed == {EventsAll}
    IN  IF Truthy(typeParam)
        THEN (subscribed \cup {TypedTopic(typeParam[1])}) \ {EventsAll}
        ELSE subscribed

-----------------------------------------------------------------------------
(* PlaybackQueue (voice/queue.ts) *)

\* A QueueItem; ref stands for the identity of the object, so that the
\* histories can tell two items with equal fields apart.
QueueItem(filePath, label, enqueuedAt, ref) ==
    [filePath |-> filePath, label |-> label, enqueuedAt |-> enqueuedAt,
     ref |-> ref]

\* The process Bun.spawn(['afplay', filePath]) returns; killed records that
\* kill() was called on it.
Player(filePath) ==
    [filePath |-> filePath, spawnedAt |-> now, state |-> "running",
     killed |-> FALSE]

\* What a suspended drain() awaits: the race of playOne on a player (its
\* index in procs), or only the microtask of an already settled playOne.
Microtask == 0

Dequeued(item, outcome) == [item |-> item, at |-> now, outcome |-> outcome]

\* Date.now() - item.enqueuedAt > this.config.maxAgeMs
Stale(item) == now - item.enqueuedAt > config.maxAgeMs

\* The number of items at the head of q that the loop shifts and skips.
RECURSIVE StalePrefix(_)
StalePrefix(q) ==
    IF q = << >> \/ ~Stale(Head(q)) THEN 0 ELSE 1 + StalePrefix(Tail(q))

RemoveAt(s, i) == SubSeq(s, 1, i - 1) \o SubSeq(s, i + 1, Len(s))

\* drain() without the staleness test: the head of the queue is played
\* whatever its age.
DrainLoopPlaysStale(q, ds, cur, ps, pl) ==
    IF q = << >>
    THEN /\ queue' = << >>
         /\ playing' = FALSE
         /\ currentProc' = cur
         /\ procs' = ps
         /\ drains' = ds
         /\ dequeueLog' = dequeueLog
    ELSE /\ queue' = Tail(q)
         /\ playing' = pl
         /\ \/ /\ procs' = Append(ps, Player(Head(q).filePath))
               /\ currentProc' = Some(Len(ps) + 1)
               /\ drains' = Append(ds, Len(ps) + 1)
               /\ dequeueLog' = Append(dequeueLog, Dequeued(Head(q), "spawned"))
            \/ /\ procs' = ps
               /\ currentProc' = None
               /\ drains' = Append(ds, Microtask)
               /\ dequeueLog' =
                    Append(dequeueLog, Dequeued(Head(q), "spawn_failed"))

\* drain() whose finally clause is missing: playing stays as it is when the
\* loop ends.
DrainLoopNoFinally(q, ds, cur, ps, pl) ==
    LET k == StalePrefix(q)
        skipped == [i \in 1..k |-> Dequeued(q[i], "stale")]
        rest == SubSeq(q, k + 1, Len(q))
    IN  IF rest = << >>
        THEN /\ queue' = << >>
             /\ playing' = pl
             /\ currentProc' = cur
             /\ procs' = ps
             /\ drains' = ds
             /\ dequeueLog' = dequeueLog \o skipped
        ELSE /\ queue' = Tail(rest)
             /\ playing' = pl
             /\ \/ /\ procs' = Append(ps, Player(Head(rest).filePath))
                   /\ currentProc' = Some(Len(ps) + 1)
                   /\ drains' = Append(ds, Len(ps) + 1)
                   /\ dequeueLog' =
                        dequeueLog \o skipped
                          \o <<Dequeued(Head(rest), "spawned")>>
                \/ /\ procs' = ps
                   /\ currentProc' = None
                   /\ drains' = Append(ds, Microtask)
                   /\ dequeueLog' =
                        dequeueLog \o skipped
                          \o <<Dequeued(Head(rest), "spawn_failed")>>

\* The while loop of drain() from its test to the next await, or to the end
\* of drain(): q is the queue, ds the other suspended activations, cur the
\* value of currentProc, ps the players and pl the value of playing as the
\* loop is entered. Stale items are shifted and skipped; the first fresh
\* item is shifted and passed to playOne, whose Bun.spawn either returns a
\* player (drain then awaits the race on it) or throws (playOne swallows
\* the exception, and drain awaits the settled promise). With nothing left
\* the finally clause sets playing to false.
DrainLoop(q, ds, cur, ps, pl) ==
    LET k == StalePrefix(q)
        skipped == [i \in 1..k |-> Dequeued(q[i], "stale")]
        rest == SubSeq(q, k + 1, Len(q))
    IN  IF rest = << >>
        THEN /\ queue' = << >>
             /\ playing' = FALSE
             /\ currentProc' = cur
             /\ procs' = ps
             /\ drains' = ds
             /\ dequeueLog' = dequeueLog \o skipped
        ELSE /\ queue' = Tail(rest)
             /\ playing' = pl
             /\ \/ /\ procs' = Append(ps, Player(Head(rest).filePath))
                   /\ currentProc' = Some(Len(ps) + 1)
                   /\ drains' = Append(ds, Len(ps) + 1)
                   /\ dequeueLog' =
                        dequeueLog \o skipped
                          \o <<Dequeued(Head(rest), "spawned")>>
                \/ /\ procs' = ps
                   /\ currentProc' = None
                   /\ drains' = Append(ds, Microtask)
                   /\ dequeueLog' =
                        dequeueLog \o skipped
                          \o <<Dequeued(Head(rest), "spawn_failed")>>

\* PlaybackQueue.enqueue without the depth test.
EnqueueUnbounded(item) ==
    /\ enqueueLog' = Append(enqueueLog, item)
    /\ IF ~playing
       THEN DrainLoop(Append(queue, item), drains, currentProc, procs, TRUE)
       ELSE /\ queue' = Append(queue, item)
            /\ UNCHANGED <<playing, currentProc, procs, drains, dequeueLog>>
    /\ UNCHANGED <<voiceMode, config, stopLog>>

\* PlaybackQueue.enqueue that starts drain() without looking at playing.
EnqueueAlwaysDrains(item) ==
    /\ enqueueLog' = Append(enqueueLog, item)
    /\ IF Len(queue) >= config.maxDepth
       THEN UNCHANGED <<queue, playing, currentProc, procs, drains, dequeueLog>>
       ELSE DrainLoop(Append(queue, item), drains, currentProc, procs, TRUE)
    /\ UNCHANGED <<voiceMode, config, stopLog>>

\* PlaybackQueue.enqueue: drop the item when the queue is full; otherwise
\* push it and, when no drain is playing, run drain() up to its first await.
Enqueue(item) ==
    /\ enqueueLog' = Append(enqueueLog, item)
    /\ IF Len(queue) >= config.maxDepth
       THEN UNCHANGED <<queue, playing, currentProc, procs, drains, dequeueLog>>
       ELSE IF ~playing
            THEN DrainLoop(Append(queue, item), drains, currentProc, procs,
                           TRUE)
            ELSE /\ queue' = Append(queue, item)
                 /\ UNCHANGED <<playing, currentProc, procs, drains,
                                dequeueLog>>
    /\ UNCHANGED <<voiceMode, config, stopLog>>

\* The rest of playOne and of drain() once the await of activation d is
\* over: playOne's finally clears currentProc, and the loop goes on.
Resume(d, ps) ==
    /\ DrainLoop(queue, RemoveAt(drains, d), None, ps, playing)
    /\ UNCHANGED <<voiceMode, config, enqueueLog, stopLog>>

\* proc.exited resolves: the player has exited (by itself or because it
\* was killed). The drain awaiting it, if there still is one, goes on.
PlayerExits(p) ==
    /\ procs[p].state = "running"
    /\ LET ps == [procs EXCEPT ![p].state = "exited"]
       IN  IF \E d \in 1..Len(drains) : drains[d] = p
           THEN Resume(CHOOSE d \in 1..Len(drains) : drains[d] = p, ps)
           ELSE /\ procs' = ps
                /\ UNCHANGED <<voiceMode, config, queue, playing, currentProc,
                               drains, enqueueLog, dequeueLog, stopLog>>

\* proc.exited rejects: the race rejects, the catch handler calls kill()
\* and the drain goes on.
PlayerFails(p) ==
    /\ procs[p].state = "running"
    /\ \E d \in 1..Len(drains) :
         /\ drains[d] = p
         /\ Resume(d, [procs EXCEPT ![p].state = "exited", ![p].killed = TRUE])

\* The timer of playOne whose rejection is swallowed without a kill().
PlayTimeoutNoKill(p) ==
    /\ now - procs[p].spawnedAt >= config.maxPlayMs
    /\ \E d \in 1..Len(drains) :
         /\ drains[d] = p
         /\ Resume(d, procs)

\* The maxPlayMs timer of playOne fires while the race is still open: the
\* race rejects, the catch handler kills the player and the drain goes on.
PlayTimeout(p) ==
    /\ now - procs[p].spawnedAt >= config.maxPlayMs
    /\ \E d \in 1..Len(drains) :
         /\ drains[d] = p
         /\ Resume(d, [procs EXCEPT ![p].killed = TRUE])

\* The microtask of a drain() whose playOne ended at once (spawn threw).
DrainResumes ==
    \E d \in 1..Len(drains) : drains[d] = Microtask /\ Resume(d, procs)

\* PlaybackQueue.stop that kills the player but keeps the pending items.
StopKeepsPending ==
    /\ queue' = queue
    /\ stopLog' = stopLog \cup {queue[i].ref : i \in 1..Len(queue)}
    /\ IF currentProc # None
       THEN /\ procs' = [procs EXCEPT ![currentProc[1]].killed = TRUE]
            /\ currentProc' = None
       ELSE UNCHANGED <<procs, currentProc>>
    /\ UNCHANGED <<voiceMode, config, playing, drains, enqueueLog, dequeueLog>>

\* PlaybackQueue.stop
Stop ==
    /\ queue' = << >>
    /\ stopLog' = stopLog \cup {queue[i].ref : i \in 1..Len(queue)}
    /\ IF currentProc # None
       THEN /\ procs' = [procs EXCEPT ![currentProc[1]].killed = TRUE]
            /\ currentProc' = None
       ELSE UNCHANGED <<procs, currentProc>>
    /\ UNCHANGED <<voiceMode, config, playing, drains, enqueueLog, dequeueLog>>

\* PlaybackQueue.clear
Clear ==
    /\ queue' = << >>
    /\ UNCHANGED <<voiceMode, config, playing, currentProc, procs, drains,
                   enqueueLog, dequeueLog, stopLog>>

\* PlaybackQueue.depth and PlaybackQueue.isPlaying
Depth == Len(queue)
IsPlaying == playing

-----------------------------------------------------------------------------
(* Voice trigger of the enrichment pipeline (server.ts, voice/voices.ts) *)

ShipsComputer == <<"enterprise", ":", "ships-computer-cpu">>

\* VOICE_MAP, the entry the server triggers in-process
VOICE_MAP ==
    [a \in {ShipsComputer} |->
        [voiceId |-> <<"TBD_NEUTRAL_FEMALE">>, label |-> <<"Computer">>,
         phrases |->
            [start |-> <<<<"Working.">>, <<"Processing request.">>>>,
             stop |-> <<<<"Analysis complete.">>,
                        <<"Report ready, Captain.">>>>]]]

\* selectPhrase: the phrases Math.random() can pick, or None for null.
SelectPhrase(agentType, phase) ==
    IF agentType \notin DOMAIN VOICE_MAP THEN {None}
    ELSE IF phase \notin DOMAIN VOICE_MAP[agentType].phrases THEN {None}
    ELSE LET candidates == VOICE_MAP[agentType].phrases[phase]
         IN  IF candidates = << >> THEN {None}
             ELSE {Some(candidates[i]) : i \in 1..Len(candidates)}

\* cacheKey and the path cacheGet builds from it
ClipPath(text, voiceId) == <<"voices", "/">> \o voiceId \o <<":">> \o text \o <<".mp3">>

\* triggerVoice: pick a phrase, look its clip up in the cache (the file
\* exists or not) and enqueue it.
TriggerVoice(agentType, phase) ==
    IF voiceMode = "off" THEN UNCHANGED voiceVars
    ELSE \E text \in SelectPhrase(agentType, phase), cached \in BOOLEAN :
           IF text = None \/ agentType \notin DOMAIN VOICE_MAP \/ ~cached
           THEN UNCHANGED voiceVars
           ELSE LET entry == VOICE_MAP[agentType]
                IN  Enqueue(QueueItem(ClipPath(text[1], entry.voiceId),
                                      entry.label \o <<": ">> \o text[1],
                                      now, Len(enqueueLog) + 1))

\* VOICE_MAP[agentType] is truthy: VOICE_MAP is an object literal, so the
\* members it inherits from Object.prototype are found as well.
HasVoiceEntry(agentType) ==
    agentType \in DOMAIN VOICE_MAP \/ agentType \in ObjectPrototypeMembers

\* String(key) of a property key that is a value of the body
PropertyKey(value) ==
    IF value.k = "string" THEN value.v
    ELSE IF value.k = "number" THEN <<"42">>
    ELSE <<value.k>>

\* body.phase as a key of entry.phrases
PhaseKey(value) ==
    IF PropertyKey(value) = <<"start">> THEN "start"
    ELSE IF PropertyKey(value) = <<"stop">> THEN "stop"
    ELSE "other"

NotifyAnswer(status, body) ==
    [status |-> status, route |-> "POST /voice/notify", threw |-> FALSE,
     body |-> body]

\* The promise of the handler rejects with a TypeError: no answer is built.
NotifyThrows ==
    [status |-> 500, route |-> "POST /voice/notify", threw |-> TRUE,
     body |-> [queued |-> FALSE, reason |-> "none"]]

NotQueued(reason) == [queued |-> FALSE, reason |-> reason]

\* The POST /voice/notify route of the router and handleVoiceNotify. parsed
\* is what req.json() gives: InvalidJson when it rejects, else a JSON value.
HandleVoiceNotify(parsed) ==
    IF voiceMode = "off"
    THEN /\ response' = NotifyAnswer(200, NotQueued("voice_disabled"))
         /\ UNCHANGED voiceVars
    ELSE IF parsed = InvalidJson
    THEN /\ response' = NotifyAnswer(400, NotQueued("invalid_body"))
         /\ UNCHANGED voiceVars
    ELSE IF parsed = JNull
    THEN \* body.agentType of null
         /\ response' = NotifyThrows
         /\ UNCHANGED voiceVars
    ELSE LET body == IF parsed.k = "object" THEN parsed.v ELSE << >>
             agentType == PropertyKey(Get(body, "agentType"))
             phase == PhaseKey(Get(body, "phase"))
         IN  IF ~HasVoiceEntry(agentType)
             THEN /\ response' = NotifyAnswer(200, NotQueued("unknown_agent"))
                  /\ UNCHANGED voiceVars
             ELSE IF agentType \notin DOMAIN VOICE_MAP
             THEN \* selectPhrase: entry.phrases[phase] of an inherited member
                  /\ response' = NotifyThrows
                  /\ UNCHANGED voiceVars
             ELSE \E text \in SelectPhrase(agentType, phase),
                     cached \in BOOLEAN :
                    IF text = None
                    THEN /\ response' =
                              NotifyAnswer(200, NotQueued("unknown_agent"))
                         /\ UNCHANGED voiceVars
                    ELSE IF ~cached
                    THEN /\ response' =
                              NotifyAnswer(200, NotQueued("not_cached"))
                         /\ UNCHANGED voiceVars
                    ELSE LET entry == VOICE_MAP[agentType]
                         IN  /\ Enqueue(QueueItem(
                                   ClipPath(text[1], entry.voiceId),
                                   entry.label \o <<": ">> \o text[1],
                                   now, Len(enqueueLog) + 1))
                             /\ response' =
                                  NotifyAnswer(200,
                                    [queued |-> TRUE, label |-> entry.label,
                                     text |-> text[1]])

-----------------------------------------------------------------------------
(* Ingress handlers *)

\* ServerOptions.appName and ServerOptions.appRoot
DefaultApp == <<"observability">>
DefaultAppRoot == <<"/", "srv">>

Context(app, appRoot, source, correlationId) ==
    [app |-> app, appRoot |-> appRoot, source |-> source,
     correlationId |-> correlationId]

Rejected(status) == [status |-> status, accepted |-> FALSE]
Skipped == [status |-> 200, accepted |-> FALSE]
Created(event, ids) ==
    [status |-> 201, accepted |-> TRUE, event |-> event, ids |-> ids]

\* handlePostEnvelope up to the envelope it stores: the response status and,
\* for 201, the envelope and the number of ids taken from nanoId().
PostEnvelopeOutcome(req) ==
    LET parsedBody == ParseJsonObjectBody(req)
    IN  IF ~parsedBody.ok THEN Rejected(parsedBody.status)
        ELSE LET body == parsedBody.body
             IN  IF ~IsString(Get(body, "type")) THEN Rejected(400)
                 ELSE IF Get(body, "data") = Undefined THEN Rejected(400)
                 ELSE IF Get(body, "schemaVersion") # Undefined
                 THEN LET validated == ValidateFullEnvelope(body)
                      IN  IF ~validated.ok THEN Rejected(400)
                          ELSE Created(validated.event, 0)
                 ELSE Created(
                        CreateEvent(
                          body.type.v,
                          Coalesce(body.data, EmptyObject),
                          Context(
                            IF IsNonEmptyString(Get(body, "app"))
                              THEN body.app.v ELSE DefaultApp,
                            IF IsNonEmptyString(Get(body, "appRoot"))
                              THEN body.appRoot.v ELSE DefaultAppRoot,
                            IF Get(body, "source") = JStr(<<"hook">>)
                              THEN <<"hook">> ELSE <<"cli">>,
                            IF IsNonEmptyString(Get(body, "correlationId"))
                              THEN Some(body.correlationId.v) ELSE None)),
                        1)

\* handleHookEvent without the stop-recursion guard.
HookEventOutcomeUnguarded(eventName, req) ==
    LET parsedBody == ParseJsonObjectBody(req)
    IN  IF ~parsedBody.ok THEN Rejected(parsedBody.status)
        ELSE LET raw == parsedBody.body
             IN  Created(
                   CreateEvent(
                     MapEventName(eventName),
                     ExtractEventFields(eventName, raw),
                     Context(
                       IF IsNonEmptyString(Get(raw, "app"))
                         THEN raw.app.v ELSE DefaultApp,
                       IF IsString(Get(raw, "cwd"))
                         THEN raw.cwd.v ELSE DefaultAppRoot,
                       <<"hook">>,
                       Some(GenerateCorrelationId(nanoCount + 1)))),
                   1)

\* handleHookEvent up to the envelope it stores.
HookEventOutcome(eventName, req) ==
    LET parsedBody == ParseJsonObjectBody(req)
    IN  IF ~parsedBody.ok THEN Rejected(parsedBody.status)
        ELSE LET raw == parsedBody.body
             IN  IF eventName = <<"stop">> /\ Get(raw, "stop_hook_active") = JTrue
                 THEN Skipped
                 ELSE Created(
                        CreateEvent(
                          MapEventName(eventName),
                          ExtractEventFields(eventName, raw),
                          Context(
                            IF IsNonEmptyString(Get(raw, "app"))
                              THEN raw.app.v ELSE DefaultApp,
                            IF IsString(Get(raw, "cwd"))
                              THEN raw.cwd.v ELSE DefaultAppRoot,
                            <<"hook">>,
                            Some(GenerateCorrelationId(nanoCount + 1)))),
                        1)

\* A tail that stores the envelope and leaves its publishes to a later
\* turn of the loop: what it publishes is the envelope stored before.
RespondPublishingLate(route, outcome) ==
    IF outcome.accepted
    THEN /\ Push(outcome.event)
         /\ conns' = IF accepted = << >> THEN conns
                     ELSE Publish(Publish(conns, EventsAll,
                                    JsonStringify(accepted[Len(accepted)])),
                                  TypedTopic(accepted[Len(accepted)].type),
                                  JsonStringify(accepted[Len(accepted)]))
         /\ accepted' = Append(accepted, outcome.event)
         /\ nanoCount' = nanoCount + outcome.ids
         /\ response' = [status |-> outcome.status, route |-> route]
         /\ UNCHANGED now
    ELSE /\ response' = [status |-> outcome.status, route |-> route]
         /\ UNCHANGED <<storeVars, conns, accepted, nanoCount, now>>

\* The tail of both ingress handlers: store.push, the two publishes and the
\* response; a request that is not accepted only answers.
Respond(route, outcome) ==
    IF outcome.accepted
    THEN /\ Push(outcome.event)
         /\ conns' = Publish(Publish(conns, EventsAll,
                                     JsonStringify(outcome.event)),
                             TypedTopic(outcome.event.type),
                             JsonStringify(outcome.event))
         /\ accepted' = Append(accepted, outcome.event)
         /\ nanoCount' = nanoCount + outcome.ids
         /\ response' = [status |-> outcome.status, route |-> route]
         /\ UNCHANGED now
    ELSE /\ response' = [status |-> outcome.status, route |-> route]
         /\ UNCHANGED <<storeVars, conns, accepted, nanoCount, now>>

\* POST /events
HandlePostEnvelope(req) ==
    /\ Respond("POST /events", PostEnvelopeOutcome(req))
    /\ UNCHANGED <<voiceVars, lifeVars, peerVars>>

\* handleHookEvent from the point where the body has been read: it runs to
\* its return without an await.
HookEventTail(eventName, req) ==
    LET outcome == HookEventOutcome(eventName, req)
    IN  /\ Respond("POST /events/:eventName", outcome)
        /\ IF outcome.accepted /\ eventName = <<"stop">> /\ voiceMode # "off"
           THEN TriggerVoice(ShipsComputer, "stop")
           ELSE UNCHANGED voiceVars

\* POST /events/:eventName that triggers the voice before it looks at the
\* body.
HandleHookEventVoiceFirst(eventName, req) ==
    /\ Respond("POST /events/:eventName", HookEventOutcome(eventName, req))
    /\ IF eventName = <<"stop">> /\ voiceMode # "off"
       THEN TriggerVoice(ShipsComputer, "stop")
       ELSE UNCHANGED voiceVars
    /\ UNCHANGED <<lifeVars, peerVars>>

\* POST /events/:eventName: a stored Stop event triggers the voice when the
\* server has a playback queue (voice mode not off).
HandleHookEvent(eventName, req) ==
    /\ HookEventTail(eventName, req)
    /\ UNCHANGED <<lifeVars, peerVars>>

\* The router takes a POST request: the handler is called and suspends in
\* parseJsonObjectBody until the body has been read.
RequestArrives(route, eventName, req) ==
    /\ inflight' = Append(inflight,
                          [route |-> route, eventName |-> eventName,
                           req |-> req, state |-> "reading"])
    /\ UNCHANGED <<storeVars, now, nanoCount, conns, accepted, response,
                   voiceVars, lifeVars, outsideVars>>

\* The body of request r has been read: its handler goes on to its return.
BodyRead(r) ==
    /\ r \in 1..Len(inflight)
    /\ inflight[r].state = "reading"
    /\ inflight' = [inflight EXCEPT ![r].state = "answered"]
    /\ IF inflight[r].route = "POST /events"
       THEN /\ Respond("POST /events", PostEnvelopeOutcome(inflight[r].req))
            /\ UNCHANGED voiceVars
       ELSE HookEventTail(inflight[r].eventName, inflight[r].req)
    /\ UNCHANGED <<lifeVars, outsideVars>>

\* bunServer.subscriberCount(topic)
SubscriberCount(topic) ==
    Cardinality({c \in DOMAIN conns :
                   conns[c].state = "open" /\ topic \in conns[c].topics})

\* GET /health
HandleGetHealth ==
    /\ response' = [status |-> 200, route |-> "GET /health",
                    total |-> Size, persistErrors |-> persistErrors,
                    wsClients |-> SubscriberCount(EventsAll)]
    /\ UNCHANGED <<storeVars, now, nanoCount, conns, accepted, voiceVars,
                   lifeVars, peerVars>>

\* websocket.open for connection c whose upgrade URL carried typeParam
WsOpen(c, typeParam) ==
    /\ conns[c].state = "idle"
    /\ conns' = [conns EXCEPT ![c] =
                    [state |-> "open", typeParam |-> typeParam,
                     topics |-> TopicsAfterOpen(typeParam), inbox |-> << >>,
                     joined |-> Len(accepted)]]
    /\ UNCHANGED <<storeVars, accepted, nanoCount, now, response, voiceVars,
                   lifeVars, peerVars>>

\* websocket.close: Bun drops the socket's subscriptions.
WsClose(c) ==
    /\ conns[c].state = "open"
    /\ conns' = [conns EXCEPT ![c].state = "closed", ![c].topics = {}]
    /\ UNCHANGED <<storeVars, accepted, nanoCount, now, response, voiceVars,
                   lifeVars, peerVars>>

\* The wall clock moves on.
Tick ==
    /\ now < MaxTick
    /\ now' = now + 1
    /\ UNCHANGED <<storeVars, conns, accepted, nanoCount, response, voiceVars,
                   lifeVars, peerVars>>

-----------------------------------------------------------------------------
(* Discovery files and server life cycle (server.ts) *)

\* The files of GLOBAL_CACHE_DIR that the server writes
DiscoveryFiles == {"events.port", "events.pid", "events.nonce"}

\* A file: its text, as a sequence of characters, and the process that
\* wrote it (history; the code never reads it).
File(text, by) == [text |-> text, by |-> by]

NoFiles == [f \in DiscoveryFiles |-> None]

\* String(n) for a natural number
RECURSIVE StringOfNat(_)
StringOfNat(n) ==
    IF n < 10 THEN <<Digits[n + 1]>>
    ELSE StringOfNat(n \div 10) \o <<Digits[(n % 10) + 1]>>

RECURSIVE LeadingDigits(_)
LeadingDigits(s) ==
    IF s = << >> \/ ~IsDigit(Head(s)) THEN << >>
    ELSE <<Head(s)>> \o LeadingDigits(Tail(s))

RECURSIVE DecimalValue(_)
DecimalValue(ds) ==
    IF ds = << >> THEN 0
    ELSE 10 * DecimalValue(SubSeq(ds, 1, Len(ds) - 1)) + DigitValue(ds[Len(ds)])

RECURSIVE TrimStart(_)
TrimStart(s) ==
    IF s # << >> /\ Head(s) \in {" ", "\n"} THEN TrimStart(Tail(s)) ELSE s

\* Number.parseInt(s, 10): leading white space is skipped, a sign is read,
\* then the longest run of digits; what follows is ignored. None is NaN.
ParseInt(s) ==
    LET t == TrimStart(s)
        signed == t # << >> /\ Head(t) \in {"-", "+"}
        ds == LeadingDigits(IF signed THEN Tail(t) ELSE t)
    IN  IF ds = << >> THEN None
        ELSE IF signed /\ Head(t) = "-" THEN Some(0 - DecimalValue(ds))
        ELSE Some(DecimalValue(ds))

DEFAULT_LIMIT == 100
MAX_LIMIT == 1000

\* Math.min(a, b)
MathMin(a, b) == IF a = NotANumber \/ b = NotANumber THEN NotANumber ELSE Min(a, b)

\* Number.parseInt(s, 10) as a number
ParseIntNumber(s) == IF ParseInt(s) = None THEN NotANumber ELSE ParseInt(s)[1]

\* GET /events: searchParams.get gives null (None) for an absent parameter
HandleGetEvents(type, since, limitStr) ==
    LET rawLimit == IF Truthy(limitStr) THEN ParseIntNumber(limitStr[1])
                    ELSE DEFAULT_LIMIT
        limit == MathMin(rawLimit, MAX_LIMIT)
    IN  /\ response' = [status |-> 200, route |-> "GET /events",
                        request |-> [type |-> type, since |-> since,
                                     limit |-> limitStr],
                        body |-> Query(Filter(type, since, Some(limit)))]
        /\ UNCHANGED <<storeVars, now, nanoCount, conns, accepted, voiceVars,
                       lifeVars, peerVars>>

\* A process exists from the moment it is launched until it exits or is
\* killed.
ProcessExists(pid) ==
    pid \in DOMAIN servers /\ servers[pid].state \notin {"unborn", "dead"}

\* isProcessRunning: process.kill(pid, 0) does not throw.
IsProcessRunning(pid) == pid > 0 /\ ProcessExists(pid)

\* removePidFiles: unlink each of the three files that exists.
RemovePidFiles == NoFiles

\* writePidFiles(port, pid) for the nonce nanoId() returned
WritePidFiles(port, pid, serverNonce) ==
    [f \in DiscoveryFiles |->
        CASE f = "events.port" -> Some(File(StringOfNat(port), pid))
          [] f = "events.pid" -> Some(File(StringOfNat(pid), pid))
          [] f = "events.nonce" -> Some(File(serverNonce, pid))]

\* readEventServerPort without the liveness probe.
ReadEventServerPortNoProbe(fs) ==
    IF fs["events.pid"] = None \/ fs["events.port"] = None
    THEN [port |-> None, files |-> fs]
    ELSE LET pid == ParseInt(fs["events.pid"][1].text)
             port == ParseInt(fs["events.port"][1].text)
             validPid == pid # None /\ pid[1] > 0
             validPort == port # None /\ port[1] >= 1 /\ port[1] <= 65535
         IN  IF ~validPid \/ ~validPort
             THEN [port |-> None, files |-> RemovePidFiles]
             ELSE [port |-> port, files |-> fs]

\* readEventServerPort on the directory fs: the port it returns (None for
\* null) and the directory it leaves. A missing file makes readTextFileSync
\* throw, and the catch returns null without touching the files.
ReadEventServerPort(fs) ==
    IF fs["events.pid"] = None \/ fs["events.port"] = None
    THEN [port |-> None, files |-> fs]
    ELSE LET pid == ParseInt(fs["events.pid"][1].text)
             port == ParseInt(fs["events.port"][1].text)
             validPid == pid # None /\ pid[1] > 0
             validPort == port # None /\ port[1] >= 1 /\ port[1] <= 65535
         IN  IF ~validPid \/ ~validPort
             THEN [port |-> None, files |-> RemovePidFiles]
             ELSE IF ~IsProcessRunning(pid[1])
             THEN [port |-> None, files |-> RemovePidFiles]
             ELSE [port |-> port, files |-> fs]

\* String.prototype.trim
RECURSIVE StringTrim(_)
StringTrim(s) ==
    IF s # << >> /\ s[Len(s)] \in {" ", "\n"}
    THEN StringTrim(SubSeq(s, 1, Len(s) - 1))
    ELSE TrimStart(s)

\* process.kill(pid, 0) returns (TRUE) or throws (FALSE): NaN is not a pid;
\* a positive pid names a process, 0 the caller's own process group, a
\* negative pid the process group -pid, which may exist or not.
KillProbe(pid) ==
    IF pid = NotANumber THEN {FALSE}
    ELSE IF pid > 0 THEN {ProcessExists(pid)}
    ELSE IF pid = 0 THEN {TRUE}
    ELSE BOOLEAN

\* isEventServerRunning() without appRoot on the directory fs: the values
\* it can return, None for null and Some(NotANumber) for NaN.
IsEventServerRunning(fs) ==
    IF fs["events.pid"] = None \/ fs["events.port"] = None THEN {None}
    ELSE LET pid == ParseIntNumber(StringTrim(fs["events.pid"][1].text))
             port == ParseIntNumber(StringTrim(fs["events.port"][1].text))
         IN  {IF alive THEN Some(port) ELSE None : alive \in KillProbe(pid)}

\* A server process: where it is in startServer or in the signal handler,
\* the port it asked for (none once it is dead), and how the process ended
\* or, while it lives, whether a startServer call of it found a server
\* already running.
Process(state, port, exit) == [state |-> state, port |-> port, exit |-> exit]

\* The port is held by a process whose Bun server is bound and not stopped.
PortInUse(port) ==
    \E q \in DOMAIN servers :
        /\ servers[q].state \in {"bound", "listening", "queue stopped",
                                 "files removed"}
        /\ servers[q].port = port

StartOutcome(pid, outcome, port) ==
    [pid |-> pid, outcome |-> outcome, port |-> port]

\* startServer, first part: the caller constructs the store and the
\* playback queue and checks for a server that is already running; if there
\* is one startServer throws, and the caller lives on without a server.
StartCheck(pid, port) ==
    /\ servers[pid].state \in {"unborn", "idle"}
    /\ LET existing == ReadEventServerPort(files)
       IN  /\ files' = existing.files
           /\ IF existing.port # None
              THEN /\ servers' = [servers EXCEPT ![pid] =
                                    Process("idle", port, "already running")]
                   /\ startResult' =
                        StartOutcome(pid, "Event server already running on port",
                                     existing.port[1])
              ELSE /\ servers' = [servers EXCEPT ![pid] =
                                    Process("checked", port, servers[pid].exit)]
                   /\ startResult' = StartOutcome(pid, "checked", port)
    /\ UNCHANGED <<storeVars, now, nanoCount, conns, accepted, response,
                   voiceVars, readResult,
                   peerVars>>

\* startServer, second part: Bun.serve binds the port or throws.
StartBind(pid) ==
    /\ servers[pid].state = "checked"
    /\ IF PortInUse(servers[pid].port)
       THEN /\ servers' = [servers EXCEPT ![pid].state = "idle"]
            /\ startResult' =
                 StartOutcome(pid, "EADDRINUSE", servers[pid].port)
       ELSE /\ servers' = [servers EXCEPT ![pid].state = "bound"]
            /\ UNCHANGED startResult
    /\ UNCHANGED <<storeVars, now, nanoCount, conns, accepted, response,
                   voiceVars, files, readResult,
                   peerVars>>

\* startServer, last part: writePidFiles and registerSignalHandlers. The
\* playback queue of the model is the one of process 1.
StartWrite(pid) ==
    /\ servers[pid].state = "bound"
    /\ files' = WritePidFiles(servers[pid].port, pid, NanoId(nanoCount + 1))
    /\ nanoCount' = nanoCount + 1
    /\ servers' = [servers EXCEPT ![pid].state = "listening"]
    /\ startResult' = StartOutcome(pid, "listening", servers[pid].port)
    /\ UNCHANGED <<storeVars, now, conns, accepted, response, voiceVars,
                   readResult,
                   peerVars>>

\* The signal handler with removePidFiles and queue.stop() in the other
\* order.
CleanupFilesFirst(pid) ==
    \/ /\ servers[pid].state = "listening"
       /\ files' = RemovePidFiles
       /\ servers' = [servers EXCEPT ![pid].state = "queue stopped"]
       /\ UNCHANGED voiceVars
    \/ /\ servers[pid].state = "queue stopped"
       /\ IF pid = 1 /\ voiceMode # "off" THEN Stop ELSE UNCHANGED voiceVars
       /\ servers' = [servers EXCEPT ![pid].state = "files removed"]
       /\ UNCHANGED files
    \/ /\ servers[pid].state = "files removed"
       /\ servers' = [servers EXCEPT ![pid].state = "server stopped"]
       /\ UNCHANGED <<voiceVars, files>>
    \/ /\ servers[pid].state = "server stopped"
       /\ servers' = [servers EXCEPT ![pid] = Process("dead", 0, "0")]
       /\ UNCHANGED <<voiceVars, files>>

\* cleanup, the handler of SIGTERM and SIGINT, one call at a time:
\* queue?.stop(), removePidFiles(), bunServer.stop(true), process.exit(0).
\* Other processes run between the calls.
Cleanup(pid) ==
    \/ /\ servers[pid].state = "listening"
       /\ IF pid = 1 /\ voiceMode # "off" THEN Stop ELSE UNCHANGED voiceVars
       /\ servers' = [servers EXCEPT ![pid].state = "queue stopped"]
       /\ UNCHANGED files
    \/ /\ servers[pid].state = "queue stopped"
       /\ files' = RemovePidFiles
       /\ servers' = [servers EXCEPT ![pid].state = "files removed"]
       /\ UNCHANGED voiceVars
    \/ /\ servers[pid].state = "files removed"
       /\ servers' = [servers EXCEPT ![pid].state = "server stopped"]
       /\ UNCHANGED <<voiceVars, files>>
    \/ /\ servers[pid].state = "server stopped"
       /\ servers' = [servers EXCEPT ![pid] = Process("dead", 0, "0")]
       /\ UNCHANGED <<voiceVars, files>>

\* SIGTERM or SIGINT delivered to a server, and the steps of its handler
Signal(pid) ==
    /\ Cleanup(pid)
    /\ UNCHANGED <<storeVars, now, nanoCount, conns, accepted, response,
                   startResult, readResult,
                   peerVars>>

\* The process is killed (SIGKILL, crash): nothing is cleaned up.
Kill(pid) ==
    /\ ProcessExists(pid)
    /\ servers' = [servers EXCEPT ![pid] = Process("dead", 0, "killed")]
    /\ UNCHANGED <<storeVars, now, nanoCount, conns, accepted, response,
                   voiceVars, files, startResult, readResult,
                   peerVars>>

\* A caller outside the server (a CLI command) calls readEventServerPort.
ReadPort ==
    /\ readResult' = [calls |-> readResult.calls + 1,
                      port |-> ReadEventServerPort(files).port]
    /\ files' = ReadEventServerPort(files).files
    /\ UNCHANGED <<storeVars, now, nanoCount, conns, accepted, response,
                   voiceVars, servers, startResult,
                   peerVars>>

-----------------------------------------------------------------------------
(* Specification of the store alone: a caller pushes envelopes *)

\* new EventStore({capacity, persistPath})
InitStoreAt(capacities, path) ==
    /\ capacity \in capacities
    /\ buffer = [i \in 0..(capacity - 1) |-> Hole]
    /\ writeIndex = 0
    /\ count = 0
    /\ pushLog = << >>
    /\ persistPath = path
    /\ persistErrors = 0
    /\ journal = NoJournal
    /\ lastWarnAt = 0
    /\ warnLog = << >>

InitStore == InitStoreAt(1..MaxCapacity, None)

\* loadVoiceConfig and new PlaybackQueue(cfg)
InitVoice(mode, cfg) ==
    /\ voiceMode = mode
    /\ config = cfg
    /\ queue = << >>
    /\ playing = FALSE
    /\ currentProc = None
    /\ procs = << >>
    /\ drains = << >>
    /\ enqueueLog = << >>
    /\ dequeueLog = << >>
    /\ stopLog = {}

\* The tunables loadVoiceConfig hard-codes, in ticks of 500 ms
DefaultVoiceConfig == [maxDepth |-> 10, maxAgeMs |-> 60, maxPlayMs |-> 30]

\* No process has been launched and the discovery directory is empty.
InitLife ==
    /\ files = NoFiles
    /\ servers = [pid \in 1..MaxServers |-> Process("unborn", 0, "none")]
    /\ startResult = StartOutcome(0, "none", 0)
    /\ readResult = [calls |-> 0, port |-> None]

\* No client has been connected and no event emitted.
InitNoClient ==
    /\ clientOpts = [reconnectDelay |-> 0, autoReconnect |-> FALSE]
    /\ closed = FALSE
    /\ ws = None
    /\ sockets = << >>
    /\ reconnectTimer = None
    /\ timers = << >>
    /\ attempt = 0
    /\ lastDelay = None
    /\ closesSinceOpen = 0
    /\ callbacks = 0

InitEmitter ==
    /\ emitFailures = 0
    /\ lastEmitFailureLogAt = 0
    /\ emitLog = << >>
    /\ calls = << >>

InitFactory == created = << >>

\* No dashboard is mounted
InitNoDash ==
    /\ feed = 0
    /\ events = << >>
    /\ pendingEvents = << >>
    /\ flushScheduled = FALSE
    /\ fetches = << >>
    /\ dashWs = "none"
    /\ frames = << >>
    /\ dashTimer = FALSE
    /\ connects = 0

InitIngress == inflight = << >>

InitPeers ==
    InitNoClient /\ InitEmitter /\ InitFactory /\ InitNoDash /\ InitIngress

InitBus ==
    /\ now = 0
    /\ nanoCount = 0
    /\ conns = [c \in 1..MaxConns |->
                [state |-> "idle", typeParam |-> None, topics |-> {},
                 inbox |-> << >>, joined |-> 0]]
    /\ accepted = << >>
    /\ response = [status |-> 0, route |-> "none"]

InitRest == InitBus /\ InitPeers

Init ==
    InitStore /\ InitRest /\ InitVoice("off", DefaultVoiceConfig) /\ InitLife

StorePush ==
    /\ Len(pushLog) < MaxPushes
    /\ \E e \in PushInputs(Len(pushLog) + 1) : Push(e)
    /\ UNCHANGED <<now, nanoCount, conns, accepted, response, voiceVars,
                   lifeVars, peerVars>>

NextStore == StorePush

SpecStore == Init /\ [][NextStore]_vars

-----------------------------------------------------------------------------
(* Producers: the requests the ingress routes are sent *)

With(body, field, value) ==
    [f \in DOMAIN body \cup {field} |-> IF f = field THEN value ELSE body[f]]

Without(body, field) == [f \in DOMAIN body \ {field} |-> body[f]]

\* A full envelope as a programmatic client builds it.
FullEnvelopeBody(type, timestamp) ==
    [schemaVersion |-> JStr(<<"1.0.0">>), id |-> JStr(<<"evt">>),
     timestamp |-> JStr(timestamp), type |-> JStr(type),
     app |-> JStr(<<"git">>), appRoot |-> JStr(<<"/", "repo">>),
     source |-> JStr(<<"cli">>), correlationId |-> JStr(<<"abcd1234">>),
     data |-> EmptyObject]

\* A partial payload, which the server wraps.
PartialBody(type) == [type |-> JStr(type), data |-> EmptyObject]

EnvelopeFields ==
    {"schemaVersion", "id", "timestamp", "type", "app", "appRoot", "source",
     "correlationId", "data"}

\* The values a field is replaced with: each JSON kind, the empty and the
\* blank string, and a string that is neither a timestamp nor a source.
FieldValues ==
    {JNull, JStr(<< >>), JStr(<<" ">>), JStr(<<"x">>), JStr(<<"hook">>),
     JNumber, JArray, JTrue}

BaseBodies ==
    {FullEnvelopeBody(<<"worktree", ".", "created">>, ToISOString(0)),
     FullEnvelopeBody(<<"worktree", ".", "created">>, SecondsForm(0)),
     PartialBody(<<"worktree", ".", "created">>)}

\* Well-formed bodies and every body with one field replaced or removed.
FaultyBodies ==
    BaseBodies
      \cup {With(b, f, v) : b \in BaseBodies, f \in EnvelopeFields, v \in FieldValues}
      \cup {Without(b, f) : b \in BaseBodies, f \in EnvelopeFields}

SmallBody == Request(None, 64, JObj(PartialBody(<<"worktree", ".", "created">>)))

\* Requests that differ in size or in what the bytes parse to.
MalformedRequests ==
    {Request(Some(MAX_BODY_BYTES + 1), 64, SmallBody.parsed),
     Request(Some(MAX_BODY_BYTES), MAX_BODY_BYTES, SmallBody.parsed),
     Request(None, MAX_BODY_BYTES + 1, SmallBody.parsed),
     Request(None, 0, InvalidJson),
     Request(Some(8), 8, InvalidJson),
     Request(None, 4, JNull),
     Request(None, 2, JArray),
     Request(None, 2, JNumber),
     Request(None, 3, JStr(<<"x">>))}

IngressRequests ==
    {Request(None, 64, JObj(b)) : b \in FaultyBodies} \cup MalformedRequests

HookNames ==
    {<<"session", "-", "start">>, <<"pre", "-", "tool", "-", "use">>,
     <<"post", "-", "tool", "-", "use">>,
     <<"post", "-", "tool", "-", "use", "-", "failure">>, <<"stop">>,
     <<"subagent", "-", "stop">>}

\* Raw hook stdin payloads.
RawBodies ==
    {[session_id |-> JStr(<<"S">>), cwd |-> JStr(<<"/", "p">>),
      model |-> JStr(<<"m">>)],
     [session_id |-> JStr(<<"S">>), cwd |-> JStr(<< >>)],
     [session_id |-> JStr(<<"S">>), cwd |-> JNumber, app |-> JStr(<<"myapp">>)],
     [session_id |-> JStr(<<"S">>), stop_hook_active |-> JTrue],
     [tool_name |-> JStr(<<"Write">>),
      tool_input |-> JStr(<<Run("x", TRUNCATE_MAX_LEN - 2)>>),
      tool_result |-> JStr(<<Run("x", TRUNCATE_MAX_LEN - 1)>>)],
     [tool_name |-> JStr(<<"Write">>),
      tool_input |-> JStr(<<Run("x", TRUNCATE_MAX_LEN + 1000)>>),
      tool_error |-> JNumber],
     [tool_name |-> JStr(<<"Bash">>),
      tool_input |-> JObj([command |-> JStr(<<Run("l", 1), Run("s", 1)>>)]),
      tool_result |-> JNull],
     [tool_name |-> JStr(<<"Bash">>),
      tool_input |-> JObj([command |-> JStr(<<Run("y", TRUNCATE_MAX_LEN)>>)]),
      tool_result |-> JNumber]}

HookRequests ==
    {Request(None, 64, JObj(raw)) : raw \in RawBodies}
      \cup {Request(None, 0, InvalidJson), Request(None, 2, JArray)}

-----------------------------------------------------------------------------
(* Specification of the ingress routes: every kind of body, no subscriber *)

InitServer == Init /\ capacity = MaxCapacity

PostEvents ==
    /\ Len(accepted) < MaxIngress
    /\ \E req \in IngressRequests : HandlePostEnvelope(req)

PostHook ==
    /\ Len(accepted) < MaxIngress
    /\ \E name \in HookNames, req \in HookRequests : HandleHookEvent(name, req)

NextIngress == PostEvents \/ PostHook \/ Tick

SpecIngress == InitServer /\ [][NextIngress]_vars

-----------------------------------------------------------------------------
(* Specification of the broadcast: subscribers come and go while producers *)
(* post well-formed events of several types; the clock stands still        *)

BroadcastTypes ==
    {<<"all">>, <<"worktree", ".", "created">>, <<"worktree", ".", "deleted">>}

\* Values of the type parameter of /ws: none, empty, and type names.
TypeParams ==
    {None, Some(<< >>), Some(<<"all">>), Some(<<"worktree", ".", "deleted">>),
     Some(<<"hook", ".", "stop">>)}

BroadcastRequests ==
    {Request(None, 64, JObj(PartialBody(t))) : t \in BroadcastTypes}
      \cup {Request(None, 64, JObj(FullEnvelopeBody(t, ToISOString(0)))) :
              t \in BroadcastTypes}

Connect == \E c \in DOMAIN conns, typeParam \in TypeParams : WsOpen(c, typeParam)

Disconnect == \E c \in DOMAIN conns : WsClose(c)

PostTyped ==
    /\ Len(accepted) < MaxPosts
    /\ \E req \in BroadcastRequests : HandlePostEnvelope(req)

PostStopHook ==
    /\ Len(accepted) < MaxPosts
    /\ \E raw \in {[session_id |-> JStr(<<"S">>)],
                   [session_id |-> JStr(<<"S">>), stop_hook_active |-> JTrue]} :
         HandleHookEvent(<<"stop">>, Request(None, 64, JObj(raw)))

NextBroadcast == Connect \/ Disconnect \/ PostTyped \/ PostStopHook

SpecBroadcast == InitServer /\ [][NextBroadcast]_vars

-----------------------------------------------------------------------------
(* Specification of the hook pipeline: a server with a journal and the     *)
(* voice system on, one dashboard, and hooks that post Stop events         *)

InitHooks ==
    /\ InitStoreAt({MaxCapacity}, Some(<<"events.jsonl">>))
    /\ InitRest
    /\ InitVoice("on", DefaultVoiceConfig)
    /\ InitLife

\* Stop payloads: plain, with the recursion flag set, and with the flag
\* holding the string "true" instead of the boolean.
StopBodies ==
    {[session_id |-> JStr(<<"S">>)],
     [session_id |-> JStr(<<"S">>), stop_hook_active |-> JTrue],
     [session_id |-> JStr(<<"S">>), stop_hook_active |-> JStr(<<"true">>)]}

UnreadableRequests ==
    {Request(None, 0, InvalidJson), Request(None, 2, JArray),
     Request(Some(MAX_BODY_BYTES + 1), 64, SmallBody.parsed),
     Request(None, MAX_BODY_BYTES + 1, SmallBody.parsed)}

StopRequests ==
    {Request(None, 64, JObj(raw)) : raw \in StopBodies} \cup UnreadableRequests

EnvelopeRequests ==
    UnreadableRequests
      \cup {SmallBody,
            Request(None, 64,
                    JObj(Without(PartialBody(<<"worktree", ".", "created">>),
                                 "data"))),
            Request(None, 64,
                    JObj(With(PartialBody(<<"worktree", ".", "created">>),
                              "type", JNumber))),
            Request(None, 64,
                    JObj(With(FullEnvelopeBody(<<"worktree", ".", "created">>,
                                               ToISOString(0)),
                              "id", JStr(<< >>))))}

Subscribe == WsOpen(1, None)

PostStop ==
    /\ Len(accepted) < MaxHookPosts
    /\ \E req \in StopRequests : HandleHookEvent(<<"stop">>, req)

PostEnvelope ==
    /\ Len(accepted) < MaxHookPosts
    /\ \E req \in EnvelopeRequests : HandlePostEnvelope(req)

ClipEnds ==
    /\ \E p \in 1..Len(procs) : PlayerExits(p)
    /\ UNCHANGED <<storeVars, now, nanoCount, conns, accepted, response,
                   lifeVars, peerVars>>

NextHooks == Subscribe \/ PostStop \/ PostEnvelope \/ ClipEnds

SpecHooks == InitHooks /\ [][NextHooks]_vars

-----------------------------------------------------------------------------
(* Specification of the life cycle: processes are launched one after the   *)
(* other and run startServer against one discovery directory; they are     *)
(* signalled or killed; process 1 has the voice system on, receives Stop   *)
(* hooks and plays clips, the later ones run with SIDE_QUEST_VOICE=off     *)

DefaultPort == 7483

Ports == {DefaultPort, DefaultPort + 1}

InitLifecycle ==
    /\ InitStoreAt({MaxCapacity}, None)
    /\ InitRest
    /\ InitVoice("on", DefaultVoiceConfig)
    /\ InitLife

\* The next process to be launched: pids are not reused.
NextPid == 1 + Cardinality({p \in DOMAIN servers : servers[p].state # "unborn"})

\* A new process calls startServer, or one whose call threw calls it again
\* with the same options.
Launch ==
    \E pid \in DOMAIN servers, port \in Ports :
        /\ servers[pid].state = "unborn" => pid = NextPid
        /\ servers[pid].state = "idle" => port = servers[pid].port
        /\ StartCheck(pid, port)

Bind == \E pid \in DOMAIN servers : StartBind(pid)

Register == \E pid \in DOMAIN servers : StartWrite(pid)

Terminate == \E pid \in DOMAIN servers : Signal(pid)

Crash == \E pid \in DOMAIN servers : Kill(pid)

\* Callbacks of process 1 run only while it is not inside its signal
\* handler.
HookStops ==
    /\ servers[1].state = "listening"
    /\ Len(accepted) < MaxLifePosts
    /\ HandleHookEvent(<<"stop">>,
                       Request(None, 64, JObj([session_id |-> JStr(<<"S">>)])))

ClipEndsWhileServing == servers[1].state = "listening" /\ ClipEnds

NextLifecycle ==
    \/ Launch \/ Bind \/ Register \/ Terminate \/ Crash
    \/ HookStops \/ ClipEndsWhileServing

SpecLifecycle == InitLifecycle /\ [][NextLifecycle]_vars

-----------------------------------------------------------------------------
(* Specification of discovery: the directory holds any mix of missing,     *)
(* valid and garbage files while process 1 serves and process 2 is dead;   *)
(* CLI commands call readEventServerPort                                   *)

Chars(str) ==
    CASE str = "" -> << >>
      [] str = "1" -> <<"1">>
      [] str = "2" -> <<"2">>
      [] str = "3" -> <<"3">>
      [] str = "0" -> <<"0">>
      [] str = "-1" -> <<"-", "1">>
      [] str = "1x" -> <<"1", "x">>
      [] str = "x" -> <<"x">>
      [] str = " 1\n" -> <<" ", "1", "\n">>
      [] str = "7483" -> <<"7", "4", "8", "3">>
      [] str = "7483.5" -> <<"7", "4", "8", "3", ".", "5">>
      [] str = "65535" -> <<"6", "5", "5", "3", "5">>
      [] str = "65536" -> <<"6", "5", "5", "3", "6">>

PidTexts == {"", "1", "2", "3", "0", "-1", "1x", "x", " 1\n"}

PortTexts == {"", "7483", "7483.5", "65535", "65536", "0", "-1", "x"}

\* A file left by an unknown writer (0), or no file
FoundFiles(texts) == {None} \cup {Some(File(Chars(t), 0)) : t \in texts}

InitDiscovery ==
    /\ InitStoreAt({MaxCapacity}, None)
    /\ InitRest
    /\ InitVoice("off", DefaultVoiceConfig)
    /\ \E pidFile \in FoundFiles(PidTexts), portFile \in FoundFiles(PortTexts),
          nonceFile \in FoundFiles({"x"}) :
         files = [f \in DiscoveryFiles |->
                    CASE f = "events.pid" -> pidFile
                      [] f = "events.port" -> portFile
                      [] f = "events.nonce" -> nonceFile]
    /\ servers = [pid \in 1..MaxServers |->
                    CASE pid = 1 -> Process("listening", DefaultPort, "none")
                      [] pid = 2 -> Process("dead", 0, "killed")
                      [] OTHER -> Process("unborn", 0, "none")]
    /\ startResult = StartOutcome(0, "none", 0)
    /\ readResult = [calls |-> 0, port |-> None]

CliReadsPort == readResult.calls < MaxReads /\ ReadPort

\* An emitter asks whether the server runs before it posts.
EmitterProbes ==
    /\ \E running \in IsEventServerRunning(files) :
         response' = [status |-> 0, route |-> "isEventServerRunning",
                      running |-> running]
    /\ UNCHANGED <<storeVars, now, nanoCount, conns, accepted, voiceVars,
                   lifeVars, peerVars>>

NextDiscovery == CliReadsPort \/ EmitterProbes \/ Crash

SpecDiscovery == InitDiscovery /\ [][NextDiscovery]_vars

-----------------------------------------------------------------------------
(* Properties of the EventStore, checked under SpecStore *)

\* What a bounded history must retain: the last min(k, capacity) pushes, in
\* push order. Defined on the history alone, not on the ring buffer.
Retained == LastN(pushLog, capacity)

Wrapped == Len(pushLog) > capacity

TypeFilters == {None} \cup {Some(t) : t \in StoreTypes}
SinceFilters == {None} \cup {Some(ts) : ts \in IsoTimestamps}
Limits == (-1)..(MaxCapacity + 1)

\* The envelopes of the retained history that pass the type and since
\* filters of query(), in push order.
Passing(type, since) ==
    SelectSeq(Retained,
              LAMBDA e : /\ (Truthy(type) => e.type = type[1])
                         /\ (Truthy(since) => StrGreater(e.timestamp, since[1])))

RECURSIVE SumValues(_)
SumValues(f) ==
    IF DOMAIN f = {} THEN 0
    ELSE LET k == CHOOSE x \in DOMAIN f : TRUE
         IN  f[k] + SumValues([x \in DOMAIN f \ {k} |-> f[x]])

\* C4: after k pushes into a store of capacity C, size = min(k, C); size
\* never exceeds C.
C4_SizeIsMinOfPushesAndCapacity ==
    /\ Size = Min(Len(pushLog), capacity)
    /\ Size <= capacity

C4_Witness == Len(pushLog) > capacity /\ Size = capacity /\ capacity > 1

\* C5: query() with no filter returns the retained envelopes in push order,
\* and query({type}) returns those of that type in the same relative order,
\* before and after the buffer has wrapped.
C5_QueryKeepsPushOrder ==
    /\ Query(Filter(None, None, None)) = Retained
    /\ \A t \in StoreTypes :
         Query(Filter(Some(t), None, None))
            = SelectSeq(Retained, LAMBDA e : e.type = t)

C5_Witness ==
    /\ Wrapped
    /\ writeIndex # 0
    /\ \A t \in StoreTypes : Query(Filter(Some(t), None, None)) # << >>

\* C6: once the store holds capacity envelopes, a push removes exactly the
\* envelope pushed earliest among those retained and keeps all the others.
C6_PushEvictsOldestOnly ==
    [][(count = capacity /\ pushLog' # pushLog)
         => ToArray' = Append(Tail(ToArray), pushLog'[Len(pushLog')])]_vars

C6_Witness ==
    /\ Len(pushLog) > capacity
    /\ capacity > 1
    /\ ToArray = SubSeq(pushLog, Len(pushLog) - capacity + 1, Len(pushLog))

\* C7: query({limit: n}) returns the newest n of the envelopes passing the
\* type and since filters, in push order, never more than n; nothing for
\* n <= 0; last(n) returns the newest n retained envelopes in push order.
C7_LimitTakesNewest ==
    /\ \A t \in TypeFilters, s \in SinceFilters, n \in Limits :
         LET result == Query(Filter(t, s, Some(n)))
         IN  /\ result = LastN(Passing(t, s), n)
             /\ Len(result) <= Max(n, 0)
             /\ (n <= 0 => result = << >>)
    /\ \A n \in Limits : Last(n) = LastN(Retained, n)

C7_Witness ==
    /\ Wrapped
    /\ \E t \in StoreTypes :
         /\ Len(Passing(Some(t), None)) >= 2
         /\ Len(Query(Filter(Some(t), None, Some(1)))) = 1
         /\ Query(Filter(Some(t), None, Some(1)))[1] = pushLog[Len(pushLog)]

\* C8: query({since: T}) returns exactly the retained envelopes whose
\* timestamp is an instant strictly later than T.
C8_SinceReturnsStrictlyLater ==
    \A T \in IsoTimestamps :
        Query(Filter(None, Some(T), None))
            = SelectSeq(Retained,
                        LAMBDA e : DateParse(e.timestamp) > DateParse(T))

-----------------------------------------------------------------------------
(* Properties of the ingress routes, checked under SpecIngress *)

\* The envelope schema: schemaVersion "1.0.0", non-empty id, parseable
\* timestamp, non-empty type, app and appRoot, source cli or hook, non-empty
\* correlationId, and data an object.
SatisfiesSchema(e) ==
    /\ e.schemaVersion = <<"1.0.0">>
    /\ e.id # << >>
    /\ DateParse(e.timestamp) # NaN
    /\ e.type # << >>
    /\ e.app # << >>
    /\ e.appRoot # << >>
    /\ e.source \in {<<"cli">>, <<"hook">>}
    /\ e.correlationId # << >>
    /\ e.data.k = "object"

\* C10: every envelope an ingress route answered 201 for and stored
\* satisfies the envelope schema.
C10_AcceptedEnvelopesSatisfySchema ==
    \A i \in 1..Len(accepted) : SatisfiesSchema(accepted[i])

-----------------------------------------------------------------------------
(* Properties of the broadcast, checked under SpecBroadcast *)

\* The frames of the envelopes accepted after connection c was opened and
\* satisfying Wanted, in the order they were accepted, each once.
FramesSince(c, Wanted(_)) ==
    LET since == SubSeq(accepted, conns[c].joined + 1, Len(accepted))
        wanted == SelectSeq(since, Wanted)
    IN  [i \in 1..Len(wanted) |-> JsonStringify(wanted[i])]

\* C1: a subscriber connected with ?type=F (F not empty) has received each
\* accepted envelope of type F exactly once and no envelope of another type.
C1_FilteredSubscriberReceivesItsTypeOnce ==
    \A c \in DOMAIN conns :
        (conns[c].state = "open" /\ Truthy(conns[c].typeParam))
            => conns[c].inbox
                  = FramesSince(c, LAMBDA e : e.type = conns[c].typeParam[1])

\* C2: a subscriber connected without a type filter has received every
\* accepted envelope exactly once, whatever its type.
C2_UnfilteredSubscriberReceivesAllOnce ==
    \A c \in DOMAIN conns :
        (conns[c].state = "open" /\ conns[c].typeParam = None)
            => conns[c].inbox = FramesSince(c, LAMBDA e : TRUE)

\* C3: after websocket.open a subscriber is attached to exactly one topic:
\* events.all when the URL named no type (the parameter is absent or
\* empty), otherwise events.<type>.
C3_SubscriberHasExactlyOneTopic ==
    \A c \in DOMAIN conns :
        conns[c].state = "open"
            => /\ Cardinality(conns[c].topics) = 1
               /\ ~Truthy(conns[c].typeParam) => conns[c].topics = {EventsAll}
               /\ Truthy(conns[c].typeParam)
                    => conns[c].topics = {TypedTopic(conns[c].typeParam[1])}

-----------------------------------------------------------------------------
(* Properties of rejected and skipped requests, checked under SpecHooks *)

HookRoute == "POST /events/:eventName"

\* C11: a step that answers an ingress request with 400 or 413 leaves the
\* store (buffer, size, persistErrors), the playback queue and its players,
\* and every subscriber's inbox as they were: nothing is stored, counted,
\* enqueued or published.
C11_RejectedRequestChangesNothing ==
    [][(response' # response /\ response'.status \in {400, 413})
         => UNCHANGED <<storeVars, voiceVars, conns, accepted, nanoCount>>]_vars

C11_Witness ==
    /\ response.status = 413
    /\ response.route = HookRoute
    /\ Size > 0
    /\ persistErrors > 0
    /\ Depth > 0
    /\ conns[1].inbox # << >>

\* C12: POST /events/stop with stop_hook_active: true is answered 200
\* (skipped), and the step that answers 200 stores no envelope (size and
\* typeCounts unchanged), publishes nothing and enqueues no clip.
C12_StopRecursionGuardSkips ==
    [][/\ \A raw \in StopBodies :
            Get(raw, "stop_hook_active") = JTrue
              => HookEventOutcome(<<"stop">>, Request(None, 64, JObj(raw)))
                    = Skipped
       /\ (response' # response /\ response'.status = 200)
            => /\ response'.route = HookRoute
               /\ Size' = Size
               /\ UNCHANGED <<storeVars, voiceVars, conns, accepted,
                              nanoCount>>]_vars

C12_Witness ==
    /\ response = [status |-> 200, route |-> HookRoute]
    /\ Size > 0
    /\ Depth > 0
    /\ playing
    /\ conns[1].inbox # << >>

-----------------------------------------------------------------------------
(* Specification of the playback queue alone: a PlaybackQueue built with a *)
(* small configuration (times in ticks) is driven by enqueue, stop and     *)
(* clear calls while players exit, fail or hang and the clock moves on     *)

MaxDepth == 2
MaxEnqueues == 3
MaxVoiceTick == 3

VoiceConfigs ==
    {[maxDepth |-> d, maxAgeMs |-> 1, maxPlayMs |-> 2] : d \in 1..MaxDepth}

InitVoiceQueue ==
    /\ InitStoreAt({MaxCapacity}, None)
    /\ InitRest
    /\ \E cfg \in VoiceConfigs : InitVoice("on", cfg)
    /\ InitLife

restOfServer == <<storeVars, conns, accepted, response, nanoCount, lifeVars, peerVars>>

\* enqueue({filePath, label, enqueuedAt}): the caller stamps the item now,
\* or passes a time stamp it took at time 0.
EnqueueClip ==
    /\ Len(enqueueLog) < MaxEnqueues
    /\ \E at \in {0, now} :
         LET n == Len(enqueueLog) + 1
         IN  Enqueue(QueueItem(<<"clip", n>>, <<"label", n>>, at, n))
    /\ UNCHANGED <<restOfServer, now>>

StopQueue == Stop /\ UNCHANGED <<restOfServer, now>>

ClearQueue == Clear /\ UNCHANGED <<restOfServer, now>>

ClipFails ==
    /\ \E p \in 1..Len(procs) : PlayerFails(p)
    /\ UNCHANGED <<restOfServer, now>>

TimerFires ==
    /\ \E p \in 1..Len(procs) : PlayTimeout(p)
    /\ UNCHANGED <<restOfServer, now>>

MicrotaskRuns == DrainResumes /\ UNCHANGED <<restOfServer, now>>

VoiceTick ==
    /\ now < MaxVoiceTick
    /\ now' = now + 1
    /\ UNCHANGED <<restOfServer, voiceVars>>

NextVoice ==
    \/ EnqueueClip
    \/ StopQueue
    \/ ClearQueue
    \/ ClipEnds
    \/ ClipFails
    \/ TimerFires
    \/ MicrotaskRuns
    \/ VoiceTick

SpecVoice == InitVoiceQueue /\ [][NextVoice]_vars

\* The same queue over a shorter run, for the properties of progress: the
\* event loop runs every timer that is due and every pending microtask, and
\* the clock does not stop before its horizon.
MaxLiveEnqueues == 2
MaxLiveTick == 2

LiveEnqueue == Len(enqueueLog) < MaxLiveEnqueues /\ EnqueueClip

LiveTick == now < MaxLiveTick /\ VoiceTick

NextVoiceLive ==
    \/ LiveEnqueue
    \/ StopQueue
    \/ ClearQueue
    \/ ClipEnds
    \/ ClipFails
    \/ TimerFires
    \/ MicrotaskRuns
    \/ LiveTick

SpecVoiceLive ==
    /\ InitVoiceQueue
    /\ [][NextVoiceLive]_vars
    /\ WF_vars(TimerFires)
    /\ WF_vars(MicrotaskRuns)
    /\ WF_vars(LiveTick)

-----------------------------------------------------------------------------
(* Specification of the voice route: POST /voice/notify with the voice     *)
(* system on or off, while the queue plays                                 *)

MaxNotifies == 3
MaxNotifyTick == 1

\* What req.json() gives for the bodies sent
NotifyBodies ==
    {InvalidJson, JNull, JNumber, JArray, JObj(<< >>)}
      \cup {JObj([agentType |-> JStr(a), phase |-> JStr(<<ph>>)]) :
              a \in {ShipsComputer, <<"nobody">>, <<"constructor">>},
              ph \in {"start", "stop", "middle"}}
      \cup {JObj([agentType |-> JStr(ShipsComputer)]),
            JObj([agentType |-> JNumber, phase |-> JStr(<<"start">>)])}

InitNotify ==
    /\ InitStoreAt({MaxCapacity}, None)
    /\ InitRest
    /\ \E mode \in {"on", "off"}, cfg \in VoiceConfigs : InitVoice(mode, cfg)
    /\ InitLife

PostVoiceNotify ==
    /\ Len(enqueueLog) < MaxNotifies
    /\ \E parsed \in NotifyBodies : HandleVoiceNotify(parsed)
    /\ UNCHANGED <<storeVars, conns, accepted, nanoCount, lifeVars, peerVars,
                   now>>

NotifyTick == now < MaxNotifyTick /\ VoiceTick

NextNotify ==
    \/ PostVoiceNotify
    \/ ClipEnds
    \/ MicrotaskRuns
    \/ NotifyTick

SpecNotify == InitNotify /\ [][NextNotify]_vars

-----------------------------------------------------------------------------
(* Specification of concurrent ingress: requests arrive while the bodies   *)
(* of earlier ones are still being read, and subscribers join              *)

MaxInflight == 2

ConcurrentPosts ==
    {Request(None, 64, JObj(PartialBody(t))) :
        t \in {<<"all">>, <<"worktree", ".", "deleted">>}}
      \cup {Request(None, 64, InvalidJson)}

PostArrives ==
    /\ Len(inflight) < MaxInflight
    /\ \E req \in ConcurrentPosts :
         RequestArrives("POST /events", << >>, req)

HookArrives ==
    /\ Len(inflight) < MaxInflight
    /\ RequestArrives("POST /events/:eventName", <<"stop">>,
                      Request(None, 64, JObj([session_id |-> JStr(<<"S">>)])))

BodyIsRead == \E r \in 1..Len(inflight) : BodyRead(r)

SubscriberJoins ==
    \E c \in DOMAIN conns,
       typeParam \in {None, Some(<<"worktree", ".", "deleted">>)} :
      WsOpen(c, typeParam)

NextConcurrent ==
    PostArrives \/ HookArrives \/ BodyIsRead \/ SubscriberJoins

SpecConcurrent == InitServer /\ [][NextConcurrent]_vars

-----------------------------------------------------------------------------
(* The dashboard's useEventStream (client, useEventStream.ts). Envelopes   *)
(* are known by their ids; the server has stored the envelopes 1..feed.    *)

HISTORY_LIMIT == 500
CHUNK_SIZE == 50
MAX_EVENTS == 500

MaxDashEvents == 2
MaxConnects == 2

restOfDash ==
    UNCHANGED <<storeVars, now, nanoCount, conns, accepted, response,
                voiceVars, lifeVars, clientVars, emitVars, factoryVars,
                inflight>>

\* combined.length > maxEvents ? combined.slice(combined.length - maxEvents)
\*                             : combined
Trim(combined) ==
    IF Len(combined) > MAX_EVENTS
    THEN SubSeq(combined, Len(combined) - MAX_EVENTS + 1, Len(combined))
    ELSE combined

\* The answer of GET /events?limit=500 when the store holds 1..n
ServedHistory(n) ==
    [i \in 1..Min(n, HISTORY_LIMIT) |-> n - Min(n, HISTORY_LIMIT) + i]

\* A fetchHistory call: deduplicateIds (None when not given), the answer on
\* its way, the filtered history and the offset of processChunk.
Fetch(state, deduplicateIds, history, offset) ==
    [state |-> state, deduplicateIds |-> deduplicateIds, history |-> history,
     offset |-> offset]

\* connect(): a socket that is open is closed without its onclose handler,
\* and a new WebSocket is created.
DashConnect ==
    /\ dashWs' = "connecting"
    /\ frames' = << >>
    /\ connects' = connects + 1

\* The server has stored some envelopes when the dashboard is mounted.
InitialFeeds == {0, CHUNK_SIZE + 10}

FeedAtMount ==
    CHOOSE f0 \in InitialFeeds :
        f0 <= feed /\ \A g \in InitialFeeds : g <= feed => g <= f0

\* The server stores and publishes one more envelope; an open socket of
\* the dashboard is sent the frame.
ServerStores ==
    /\ feed - FeedAtMount < MaxDashEvents
    /\ feed' = feed + 1
    /\ frames' = IF dashWs = "open" THEN Append(frames, feed + 1) ELSE frames
    /\ UNCHANGED <<events, pendingEvents, flushScheduled, fetches, dashWs,
                   dashTimer, connects>>
    /\ restOfDash

\* The server answers the GET /events of fetch f from its store.
HistoryServed(f) ==
    /\ f \in 1..Len(fetches)
    /\ fetches[f].state = "requested"
    /\ fetches' = [fetches EXCEPT ![f].state = "answered",
                                  ![f].history = ServedHistory(feed)]
    /\ UNCHANGED <<feed, events, pendingEvents, flushScheduled, dashWs, frames,
                   dashTimer, connects>>
    /\ restOfDash

\* fetchHistory goes on after its awaits: the history is filtered and the
\* first processChunk is left to the next animation frame. The call made by
\* onMounted then resolves, and its then() calls connect().
HistoryArrives(f) ==
    /\ f \in 1..Len(fetches)
    /\ fetches[f].state = "answered"
    /\ LET history == fetches[f].history
           filtered == IF fetches[f].deduplicateIds # None
                       THEN SelectSeq(history,
                              LAMBDA id : id \notin fetches[f].deduplicateIds[1])
                       ELSE history
       IN  fetches' = [fetches EXCEPT
                         ![f].state = IF filtered = << >> THEN "done"
                                      ELSE "chunking",
                         ![f].history = filtered]
    /\ IF f = 1
       THEN DashConnect
       ELSE UNCHANGED <<dashWs, frames, connects>>
    /\ UNCHANGED <<feed, events, pendingEvents, flushScheduled, dashTimer>>
    /\ restOfDash

\* fetch rejects or the answer is not ok: the catch sets error, and the
\* call resolves.
HistoryFails(f) ==
    /\ f \in 1..Len(fetches)
    /\ fetches[f].state \in {"requested", "answered"}
    /\ fetches' = [fetches EXCEPT ![f].state = "failed", ![f].history = << >>]
    /\ IF f = 1
       THEN DashConnect
       ELSE UNCHANGED <<dashWs, frames, connects>>
    /\ UNCHANGED <<feed, events, pendingEvents, flushScheduled, dashTimer>>
    /\ restOfDash

\* processChunk of fetch f, run by an animation frame
ProcessChunk(f) ==
    /\ f \in 1..Len(fetches)
    /\ fetches[f].state = "chunking"
    /\ LET filtered == fetches[f].history
           offset == fetches[f].offset
           chunk == SubSeq(filtered, offset + 1,
                           Min(offset + CHUNK_SIZE, Len(filtered)))
       IN  /\ events' = Trim(events \o chunk)
           /\ fetches' = [fetches EXCEPT
                            ![f].offset = offset + CHUNK_SIZE,
                            ![f].state =
                               IF offset + CHUNK_SIZE < Len(filtered)
                               THEN "chunking" ELSE "done"]
    /\ UNCHANGED <<feed, pendingEvents, flushScheduled, dashWs, frames,
                   dashTimer, connects>>
    /\ restOfDash

\* ws.onopen: the ids of the buffer are collected and the history is
\* fetched again.
DashWsOpens ==
    /\ dashWs = "connecting"
    /\ dashWs' = "open"
    /\ fetches' = Append(fetches,
                    Fetch("requested",
                          Some({events[i] : i \in 1..Len(events)}), << >>, 0))
    /\ UNCHANGED <<feed, events, pendingEvents, flushScheduled, frames,
                   dashTimer, connects>>
    /\ restOfDash

\* ws.onmessage
FrameArrives ==
    /\ dashWs = "open"
    /\ frames # << >>
    /\ frames' = Tail(frames)
    /\ pendingEvents' = Append(pendingEvents, Head(frames))
    /\ flushScheduled' = TRUE
    /\ UNCHANGED <<feed, events, fetches, dashWs, dashTimer, connects>>
    /\ restOfDash

\* flushBatch, run by an animation frame while the tab is visible
FlushBatch ==
    /\ flushScheduled
    /\ flushScheduled' = FALSE
    /\ events' = Trim(events \o pendingEvents)
    /\ pendingEvents' = << >>
    /\ UNCHANGED <<feed, fetches, dashWs, frames, dashTimer, connects>>
    /\ restOfDash

\* ws.onclose: the frames not yet delivered are lost, and a reconnect is
\* scheduled.
DashWsCloses ==
    /\ dashWs \in {"connecting", "open"}
    /\ connects < MaxConnects
    /\ dashWs' = "none"
    /\ frames' = << >>
    /\ dashTimer' = TRUE
    /\ UNCHANGED <<feed, events, pendingEvents, flushScheduled, fetches,
                   connects>>
    /\ restOfDash

\* The reconnect timer fires.
DashReconnects ==
    /\ dashTimer
    /\ dashTimer' = FALSE
    /\ DashConnect
    /\ UNCHANGED <<feed, events, pendingEvents, flushScheduled, fetches>>
    /\ restOfDash

\* onMounted has called fetchHistory.

InitDash ==
    /\ InitStoreAt({MaxCapacity}, None)
    /\ InitBus
    /\ InitNoClient /\ InitEmitter /\ InitFactory /\ InitIngress
    /\ InitVoice("off", DefaultVoiceConfig)
    /\ InitLife
    /\ feed \in InitialFeeds
    /\ events = << >>
    /\ pendingEvents = << >>
    /\ flushScheduled = FALSE
    /\ fetches = <<Fetch("requested", None, << >>, 0)>>
    /\ dashWs = "none"
    /\ frames = << >>
    /\ dashTimer = FALSE
    /\ connects = 0

NextDash ==
    \/ ServerStores
    \/ \E f \in 1..Len(fetches) : HistoryServed(f)
    \/ \E f \in 1..Len(fetches) : HistoryArrives(f)
    \/ \E f \in 1..Len(fetches) : HistoryFails(f)
    \/ \E f \in 1..Len(fetches) : ProcessChunk(f)
    \/ DashWsOpens
    \/ FrameArrives
    \/ FlushBatch
    \/ DashWsCloses
    \/ DashReconnects

SpecDash == InitDash /\ [][NextDash]_vars

-----------------------------------------------------------------------------
(* Specification of the health route: subscribers come and go, producers   *)
(* post, and GET /health is asked at any moment                            *)

MaxHealthPosts == 1

PostHealth ==
    /\ Len(accepted) < MaxHealthPosts
    /\ HandlePostEnvelope(SmallBody)

NextHealth == Connect \/ Disconnect \/ PostHealth \/ HandleGetHealth

SpecHealth == InitServer /\ [][NextHealth]_vars

-----------------------------------------------------------------------------
(* Specification of the hook route by name: POST /events/:eventName for    *)
(* known names, unknown names and names Object.prototype has members for   *)

MaxNamedPosts == 2

\* What the path pattern /^\/events\/([^/]+)$/ lets through: any non-empty
\* text without a slash
PathNames ==
    HookNames \cup ObjectPrototypeMembers
      \cup {<<"notification">>, <<"-">>, <<"a", "-", "-", "b">>,
            <<"pre_tool_use">>, <<"Stop">>}

NamedRequests ==
    {Request(None, 64, JObj([session_id |-> JStr(<<"S">>)])),
     Request(None, 0, InvalidJson)}

PostNamed ==
    /\ Len(accepted) < MaxNamedPosts
    /\ \E name \in PathNames, req \in NamedRequests : HandleHookEvent(name, req)

NextNames == PostNamed \/ Tick

SpecNames == InitServer /\ [][NextNames]_vars

-----------------------------------------------------------------------------
(* Specification of the envelope factory: a library caller builds events   *)
(* with createEvent, with and without a correlationId of its own           *)

MaxCreated == 3

\* The EventContext values a caller passes: correlationId left out, a
\* token, the empty string, a blank
FactoryContexts ==
    {Context(<<"app">>, <<"/", "root">>, <<"cli">>, cid) :
        cid \in {None, Some(<<"abc12345">>), Some(<< >>), Some(<<" ">>)}}

FactoryTypes == {<<"worktree", ".", "created">>, <<"session", ".", "started">>}

CallCreateEvent ==
    /\ Len(created) < MaxCreated
    /\ \E type \in FactoryTypes, context \in FactoryContexts :
         created' = Append(created,
                           [context |-> context,
                            event |-> CreateEvent(type, EmptyObject, context)])
    /\ nanoCount' = nanoCount + 1
    /\ UNCHANGED <<storeVars, now, conns, accepted, response, voiceVars,
                   lifeVars, clientVars, emitVars, dashVars, inflight>>

NextFactory == CallCreateEvent \/ Tick

SpecFactory == Init /\ [][NextFactory]_vars

-----------------------------------------------------------------------------
(* Specification of the history route: a server whose store holds from     *)
(* none to more than a thousand envelopes answers GET /events              *)

MaxHistoryPosts == 1

\* The envelope of the k-th push of an earlier stretch of the run
EarlierEvent(k) ==
    Envelope(NanoId(k), ToISOString(0),
             IF k % 2 = 0 THEN <<"worktree", ".", "created">>
             ELSE <<"worktree", ".", "deleted">>,
             <<"app">>, <<"/", "root">>, <<"cli">>, <<"c0ffee00">>, EmptyObject)

\* Capacity and number of pushes so far: the default capacity empty, partly
\* filled and wrapped, and a larger ring holding more than MAX_LIMIT
Histories ==
    {<<1000, 0>>, <<1000, DEFAULT_LIMIT + 50>>, <<1000, 1005>>,
     <<MAX_LIMIT + 200, MAX_LIMIT + 100>>}

InitHistory ==
    /\ \E h \in Histories :
         /\ capacity = h[1]
         /\ buffer = [i \in 0..(h[1] - 1) |->
                        IF i < h[2]
                        THEN EarlierEvent(i + 1 + h[1] * ((h[2] - 1 - i) \div h[1]))
                        ELSE Hole]
         /\ writeIndex = h[2] % h[1]
         /\ count = Min(h[2], h[1])
         /\ pushLog = [k \in 1..h[2] |-> EarlierEvent(k)]
         /\ nanoCount = h[2]
    /\ persistPath = None
    /\ persistErrors = 0
    /\ journal = NoJournal
    /\ lastWarnAt = 0
    /\ warnLog = << >>
    /\ now = 0
    /\ conns = [c \in 1..MaxConns |->
                [state |-> "idle", typeParam |-> None, topics |-> {},
                 inbox |-> << >>, joined |-> 0]]
    /\ accepted = << >>
    /\ response = [status |-> 0, route |-> "none"]
    /\ InitPeers
    /\ InitVoice("off", DefaultVoiceConfig)
    /\ InitLife

\* The values of ?limit=: absent, empty, numbers, text
LimitParams ==
    {None, Some(<< >>), Some(<<"5">>), Some(<<"0">>), Some(<<"-", "1">>),
     Some(<<"1", "0", "0", "0">>), Some(<<"5", "0", "0", "0">>),
     Some(<<"5", "x">>), Some(<<"a", "b", "c">>)}

GetEvents ==
    \E type \in {None, Some(<<"worktree", ".", "created">>)},
       since \in {None, Some(ToISOString(0))},
       limitStr \in LimitParams :
      HandleGetEvents(type, since, limitStr)

PostHistory ==
    /\ Len(accepted) < MaxHistoryPosts
    /\ HandlePostEnvelope(SmallBody)

NextHistory == GetEvents \/ PostHistory \/ Tick

SpecHistory == InitHistory /\ [][NextHistory]_vars

-----------------------------------------------------------------------------
(* Specification of the journal: a store with a persistPath, started on    *)
(* the journal an earlier run left, is pushed small and large events while *)
(* renames and appends may fail and the clock moves on in steps of 15 s    *)

MaxJournalPushes == 3
MaxJumps == 2

\* An event whose journal line is 768 KiB long, and a short one
LargeLine == 768 * 1024

JournalInputs(k) ==
    {Envelope(NanoId(k), ToISOString(0), <<"worktree", ".", "created">>,
              <<"app">>, <<"/", "root">>, <<"cli">>, <<"c0ffee00">>, data) :
        data \in {EmptyObject,
                  JObj([payload |-> JStr(<<Run("x", LargeLine - 1)>>)])}}

\* The lines of the given length that fill a file: rotateIfNeeded looks at
\* the size before the append, so a file takes lines until it has reached
\* MAX_JSONL_BYTES.
LinesPerFile(bytes) == (MAX_JSONL_BYTES + bytes - 1) \div bytes

\* The journal an earlier run left without a fault: so many rotated files,
\* each filled, and so many lines in the active one
JournalAfter(rotated, lines, bytes) ==
    [i \in Suffixes |->
        IF i = 0 THEN (IF lines = 0 THEN None ELSE Some(lines * bytes))
        ELSE IF i <= rotated THEN Some(LinesPerFile(bytes) * bytes)
        ELSE None]

\* What the earlier run wrote: nothing; one file filled; five files rotated
\* and the active one ten lines long
EarlierRuns == {<<0, 0>>, <<0, 14>>, <<5, 10>>}

InitJournal ==
    /\ capacity = MaxCapacity
    /\ buffer = [i \in 0..(capacity - 1) |-> Hole]
    /\ writeIndex = 0
    /\ count = 0
    /\ pushLog = << >>
    /\ persistPath = Some(<<"events.jsonl">>)
    /\ persistErrors = 0
    /\ journal \in {JournalAfter(r[1], r[2], LargeLine) : r \in EarlierRuns}
    /\ lastWarnAt = 0
    /\ warnLog = << >>
    /\ InitRest
    /\ InitVoice("off", DefaultVoiceConfig)
    /\ InitLife

JournalPush ==
    /\ Len(pushLog) < MaxJournalPushes
    /\ \E e \in JournalInputs(Len(pushLog) + 1) : Push(e)
    /\ UNCHANGED <<now, nanoCount, conns, accepted, response, voiceVars,
                   lifeVars, peerVars>>

ClockJumps ==
    /\ now < 30 * MaxJumps
    /\ now' = now + 30
    /\ UNCHANGED <<storeVars, nanoCount, conns, accepted, response, voiceVars,
                   lifeVars, peerVars>>

NextJournal == JournalPush \/ ClockJumps

SpecJournal == InitJournal /\ [][NextJournal]_vars

-----------------------------------------------------------------------------
(* The WebSocket client of client.ts: connectEventClient and the handle it *)
(* returns. A socket is "connecting", "open", "closing" (after ws.close()) *)
(* or "closed"; the runtime delivers open, message, error and close events *)
(* of a socket and fires pending timers in any order.                      *)

BASE_RECONNECT_DELAY_MS == 1000
MAX_RECONNECT_DELAY_MS == 30000

MaxSockets == 7
MaxCallbacks == 1

\* 2 ** n
RECURSIVE Pow2(_)
Pow2(n) == IF n = 0 THEN 1 ELSE 2 * Pow2(n - 1)

\* Math.random() * 1000, to the millisecond: values of [0, 1000)
Jitters == {0, 500, 999}

\* The argument of setTimeout in ws.onclose
ReconnectDelay(reconnectDelay, n, jitter) ==
    Min(reconnectDelay * Pow2(n), MAX_RECONNECT_DELAY_MS) + jitter

restOfClient ==
    UNCHANGED <<storeVars, now, nanoCount, conns, accepted, response,
                voiceVars, lifeVars, emitVars, factoryVars, dashVars,
                inflight>>

\* connect(): nothing once closed, else a new WebSocket that becomes ws
ClientConnect ==
    IF closed
    THEN UNCHANGED <<sockets, ws>>
    ELSE /\ sockets' = Append(sockets, "connecting")
         /\ ws' = Some(Len(sockets) + 1)

\* The options a caller passes: the default base delay or a shorter one,
\* with or without autoReconnect
ClientOptions ==
    [reconnectDelay : {BASE_RECONNECT_DELAY_MS, 100}, autoReconnect : BOOLEAN]

\* The state when connectEventClient has returned
InitClient(options) ==
    /\ clientOpts = options
    /\ closed = FALSE
    /\ sockets = <<"connecting">>
    /\ ws = Some(1)
    /\ reconnectTimer = None
    /\ timers = << >>
    /\ attempt = 0
    /\ lastDelay = None
    /\ closesSinceOpen = 0
    /\ callbacks = 0

\* ws.onopen
SocketOpens(s) ==
    /\ sockets[s] = "connecting"
    /\ sockets' = [sockets EXCEPT ![s] = "open"]
    /\ attempt' = 0
    /\ closesSinceOpen' = 0
    /\ UNCHANGED <<clientOpts, closed, ws, reconnectTimer, timers, lastDelay,
                   callbacks>>
    /\ restOfClient

\* ws.onmessage: onEvent with the parsed envelope, or onError
SocketMessage(s) ==
    /\ sockets[s] \in {"open", "closing"}
    /\ callbacks < MaxCallbacks
    /\ callbacks' = callbacks + 1
    /\ UNCHANGED <<clientOpts, closed, ws, sockets, reconnectTimer, timers,
                   attempt, lastDelay, closesSinceOpen>>
    /\ restOfClient

\* The close handler of a socket that also runs the reconnect of ws.onclose
\* when the socket reports an error.
SocketErrorReconnects(s) ==
    /\ sockets[s] \in {"connecting", "open", "closing"}
    /\ callbacks < MaxCallbacks
    /\ callbacks' = callbacks + 1
    /\ IF ~closed /\ clientOpts.autoReconnect
       THEN \E jitter \in Jitters :
              LET delay == ReconnectDelay(clientOpts.reconnectDelay, attempt,
                                          jitter)
              IN  /\ timers' = Append(timers, "pending")
                  /\ reconnectTimer' = Some(Len(timers) + 1)
                  /\ lastDelay' = Some(delay)
                  /\ attempt' = attempt + 1
                  /\ closesSinceOpen' = closesSinceOpen + 1
       ELSE UNCHANGED <<timers, reconnectTimer, lastDelay, attempt,
                        closesSinceOpen>>
    /\ UNCHANGED <<clientOpts, closed, ws, sockets>>
    /\ restOfClient

\* ws.onerror: onError, when the caller gave one
SocketError(s) ==
    /\ sockets[s] \in {"connecting", "open", "closing"}
    /\ callbacks < MaxCallbacks
    /\ callbacks' = callbacks + 1
    /\ UNCHANGED <<clientOpts, closed, ws, sockets, reconnectTimer, timers,
                   attempt, lastDelay, closesSinceOpen>>
    /\ restOfClient

\* ws.onclose
SocketCloses(s) ==
    /\ sockets[s] \in {"connecting", "open", "closing"}
    /\ sockets' = [sockets EXCEPT ![s] = "closed"]
    /\ ws' = None
    /\ IF ~closed /\ clientOpts.autoReconnect
       THEN \E jitter \in Jitters :
              LET delay == ReconnectDelay(clientOpts.reconnectDelay, attempt,
                                          jitter)
              IN  /\ timers' = Append(timers, "pending")
                  /\ reconnectTimer' = Some(Len(timers) + 1)
                  /\ lastDelay' = Some(delay)
                  /\ attempt' = attempt + 1
                  /\ closesSinceOpen' = closesSinceOpen + 1
       ELSE UNCHANGED <<timers, reconnectTimer, lastDelay, attempt,
                        closesSinceOpen>>
    /\ UNCHANGED <<clientOpts, closed, callbacks>>
    /\ restOfClient

\* The callback of setTimeout(connect, delay)
ReconnectTimerFires(t) ==
    /\ timers[t] = "pending"
    /\ Len(sockets) < MaxSockets
    /\ timers' = [timers EXCEPT ![t] = "fired"]
    /\ ClientConnect
    /\ UNCHANGED <<clientOpts, closed, reconnectTimer, attempt, lastDelay,
                   closesSinceOpen, callbacks>>
    /\ restOfClient

\* close() of the handle without the clearTimeout.
HandleCloseKeepingTimer ==
    /\ closed' = TRUE
    /\ reconnectTimer' = None
    /\ IF ws # None
       THEN /\ sockets' = [sockets EXCEPT ![ws[1]] = "closing"]
            /\ ws' = None
       ELSE UNCHANGED <<sockets, ws>>
    /\ UNCHANGED <<clientOpts, timers, attempt, lastDelay, closesSinceOpen,
                   callbacks>>
    /\ restOfClient

\* close() of the handle; clearTimeout of a timer that has fired does nothing
HandleClose ==
    /\ closed' = TRUE
    /\ IF reconnectTimer # None
       THEN /\ timers' = [timers EXCEPT ![reconnectTimer[1]] =
                             IF @ = "pending" THEN "cleared" ELSE @]
            /\ reconnectTimer' = None
       ELSE UNCHANGED <<timers, reconnectTimer>>
    /\ IF ws # None
       THEN /\ sockets' = [sockets EXCEPT ![ws[1]] = "closing"]
            /\ ws' = None
       ELSE UNCHANGED <<sockets, ws>>
    /\ UNCHANGED <<clientOpts, attempt, lastDelay, closesSinceOpen, callbacks>>
    /\ restOfClient

-----------------------------------------------------------------------------
(* Specification of the client: one connectEventClient call with any of    *)
(* the options, then socket events, timers and close() in any order        *)

InitClientRun ==
    /\ InitStoreAt({1}, None)
    /\ InitBus
    /\ \E options \in ClientOptions : InitClient(options)
    /\ InitEmitter
    /\ InitFactory
    /\ InitNoDash
    /\ InitIngress
    /\ InitVoice("off", DefaultVoiceConfig)
    /\ InitLife

NextClient ==
    \/ \E s \in 1..Len(sockets) : SocketOpens(s)
    \/ \E s \in 1..Len(sockets) : SocketMessage(s)
    \/ \E s \in 1..Len(sockets) : SocketError(s)
    \/ \E s \in 1..Len(sockets) : SocketCloses(s)
    \/ \E t \in 1..Len(timers) : ReconnectTimerFires(t)
    \/ HandleClose

SpecClient == InitClientRun /\ [][NextClient]_vars

-----------------------------------------------------------------------------
(* The emitter: emitEvent and its module state. A call is "fetching" while *)
(* it awaits fetch, "aborted" once its timer has called controller.abort() *)
(* and "returned" when the continuation after the await has run; each      *)
(* continuation runs to its end without interleaving. The clock counts     *)
(* units of 500 ms.                                                        *)

EMIT_FAILURE_LOG_INTERVAL_MS == 30000

\* The delay of the abort timer, in units of the clock
AbortAfter == 500 \div 500

MaxCalls == 3
MaxEmitTick == 1

\* The log interval in units of the clock
LogInterval == EMIT_FAILURE_LOG_INTERVAL_MS \div 500

\* The clock moves by single units MaxEmitTick times at most, stands still
\* or pauses for just under the log interval, and moves by single units
\* again up to EmitHorizon.
EmitHorizon == LogInterval + MaxEmitTick

CanTick == now < MaxEmitTick \/ (now >= LogInterval - 1 /\ now < EmitHorizon)

\* The answers of POST /events: created, or the body was too large
EmitStatuses == {201, 413}

restOfEmitter ==
    UNCHANGED <<storeVars, nanoCount, conns, accepted, response, voiceVars,
                lifeVars, clientVars, factoryVars, dashVars, inflight>>

\* try ... finally around the await: the call is over, its timer is cleared
\* unless it has fired, and the promise of emitEvent settles.
Return(c, result, status, settled) ==
    calls' = [calls EXCEPT ![c] =
                 [@ EXCEPT !.state = "returned", !.result = result,
                           !.status = status,
                           !.timer = IF @ = "pending" THEN "cleared" ELSE @,
                           !.settled = settled]]

\* The catch block of emitEvent that writes a line for every failure it
\* finds the interval elapsed for, without noting when it wrote.
EmitFailedUnstamped ==
    /\ emitFailures' = emitFailures + 1
    /\ IF DateNow - lastEmitFailureLogAt >= EMIT_FAILURE_LOG_INTERVAL_MS
       THEN emitLog' = Append(emitLog, [at |-> DateNow,
                                        failures |-> emitFailures + 1])
       ELSE UNCHANGED emitLog
    /\ UNCHANGED lastEmitFailureLogAt

\* The catch block of emitEvent
EmitFailed ==
    /\ emitFailures' = emitFailures + 1
    /\ IF DateNow - lastEmitFailureLogAt >= EMIT_FAILURE_LOG_INTERVAL_MS
       THEN /\ lastEmitFailureLogAt' = DateNow
            /\ emitLog' = Append(emitLog, [at |-> DateNow,
                                           failures |-> emitFailures + 1])
       ELSE UNCHANGED <<lastEmitFailureLogAt, emitLog>>

\* emitEvent up to the await: the controller, the timer and the request
EmitStart ==
    /\ Len(calls) < MaxCalls
    /\ CanTick
    /\ calls' = Append(calls, [startedAt |-> now, state |-> "fetching",
                               timer |-> "pending", result |-> "none",
                               status |-> 0, settled |-> "pending"])
    /\ UNCHANGED <<now, emitFailures, lastEmitFailureLogAt, emitLog>>
    /\ restOfEmitter

\* fetch resolves with a response, whatever its status
FetchResolves(c, status) ==
    /\ calls[c].state = "fetching"
    /\ emitFailures' = 0
    /\ Return(c, "answered", status, "fulfilled")
    /\ UNCHANGED <<now, lastEmitFailureLogAt, emitLog>>
    /\ restOfEmitter

\* fetch rejects and emitEvent has no catch block.
FetchRejectsUncaught(c) ==
    /\ calls[c].state = "fetching"
    /\ Return(c, "network", 0, "rejected")
    /\ UNCHANGED <<now, emitFailures, lastEmitFailureLogAt, emitLog>>
    /\ restOfEmitter

\* fetch rejects: connection refused or reset
FetchRejects(c) ==
    /\ calls[c].state = "fetching"
    /\ EmitFailed
    /\ Return(c, "network", 0, "fulfilled")
    /\ UNCHANGED now
    /\ restOfEmitter

\* The callback of setTimeout(() => controller.abort(), 500)
AbortTimerFires(c) ==
    /\ c \in 1..Len(calls)
    /\ calls[c].timer = "pending"
    /\ now >= calls[c].startedAt + AbortAfter
    /\ calls' = [calls EXCEPT ![c].timer = "fired", ![c].state = "aborted"]
    /\ UNCHANGED <<now, emitFailures, lastEmitFailureLogAt, emitLog>>
    /\ restOfEmitter

\* fetch rejects with the AbortError
AbortRejects(c) ==
    /\ c \in 1..Len(calls)
    /\ calls[c].state = "aborted"
    /\ EmitFailed
    /\ Return(c, "timeout", 0, "fulfilled")
    /\ UNCHANGED now
    /\ restOfEmitter

\* Time passes, by one unit or by just under the log interval; a timer that
\* is due fires, and the rejection it causes is delivered, before the clock
\* moves on.
EmitClock(d) ==
    /\ IF d = 1 THEN CanTick ELSE now + d <= EmitHorizon
    /\ \A c \in 1..Len(calls) :
         /\ calls[c].state = "fetching" => now + d <= calls[c].startedAt + AbortAfter
         /\ calls[c].state # "aborted"
    /\ now' = now + d
    /\ UNCHANGED <<emitVars>>
    /\ restOfEmitter

-----------------------------------------------------------------------------
(* Specification of the emitter: emitEvent calls, overlapping or not, that *)
(* the server answers, refuses or leaves unanswered                        *)

InitEmitRun ==
    /\ InitStoreAt({1}, None)
    /\ InitBus
    /\ InitNoClient
    /\ InitEmitter
    /\ InitFactory
    /\ InitNoDash
    /\ InitIngress
    /\ InitVoice("off", DefaultVoiceConfig)
    /\ InitLife

NextEmit ==
    \/ EmitStart
    \/ \E c \in 1..Len(calls), status \in EmitStatuses : FetchResolves(c, status)
    \/ \E c \in 1..Len(calls) : FetchRejects(c)
    \/ \E c \in 1..Len(calls) : AbortTimerFires(c)
    \/ \E c \in 1..Len(calls) : AbortRejects(c)
    \/ \E d \in {1, LogInterval - 1} : EmitClock(d)

SpecEmit == InitEmitRun /\ [][NextEmit]_vars

\* The runtime fires a due timer, delivers the rejection of an aborted fetch
\* and lets time pass.
SpecEmitLive ==
    /\ SpecEmit
    /\ \A c \in 1..MaxCalls : WF_vars(AbortTimerFires(c)) /\ WF_vars(AbortRejects(c))
    /\ WF_vars(EmitClock(1))

-----------------------------------------------------------------------------
(* Properties of the life cycle, checked under SpecLifecycle *)

\* The discovery files were written by process q and name it as owner.
OwnedBy(fs, q) ==
    /\ fs["events.pid"] = Some(File(StringOfNat(q), q))
    /\ fs["events.port"] # None
    /\ fs["events.port"][1].by = q

WroteFiles(fs, q) == \E f \in DiscoveryFiles : fs[f] # None /\ fs[f][1].by = q

HoldsPort(svs, q) ==
    svs[q].state \in {"bound", "listening", "queue stopped", "files removed"}

-----------------------------------------------------------------------------
(* Properties of discovery, checked under SpecDiscovery *)

\* C14: readEventServerPort returns the port exactly when the pid file and
\* the port file both exist, both parse to a value in range and the pid is
\* alive, and then leaves the files alone; in every other case it returns
\* null and no discovery file is left.
C14_ReadPortReturnsLivePortOrSweeps ==
    [][readResult'.calls # readResult.calls
         => LET pidFile == files["events.pid"]
                portFile == files["events.port"]
                present == pidFile # None /\ portFile # None
                pid == IF present THEN ParseInt(pidFile[1].text) ELSE None
                port == IF present THEN ParseInt(portFile[1].text) ELSE None
                valid == /\ pid # None /\ pid[1] > 0
                         /\ port # None /\ port[1] >= 1 /\ port[1] <= 65535
                alive == valid /\ ProcessExists(pid[1])
            IN  /\ alive => (readResult'.port = port /\ files' = files)
                /\ ~alive => (readResult'.port = None /\ files' = NoFiles)]_vars

-----------------------------------------------------------------------------
(* Properties of the playback queue, checked under SpecVoice *)

\* What a step appended to the dequeue history and to the players
NewlyDequeued == SubSeq(dequeueLog', Len(dequeueLog) + 1, Len(dequeueLog'))

NewlySpawned == SubSeq(procs', Len(procs) + 1, Len(procs'))

\* The players some suspended drain is awaiting
Awaited == {drains[d] : d \in 1..Len(drains)} \ {Microtask}

\* C16: the depth of the queue never exceeds maxDepth, whatever enqueue,
\* stop, clear and drain steps are taken; an enqueue made while the depth
\* has reached maxDepth returns normally having changed nothing: the item
\* is dropped and the pending items stay as they are.
C16_DepthNeverExceedsMaxDepth ==
    /\ [](Depth <= config.maxDepth)
    /\ [][(enqueueLog' # enqueueLog /\ Depth >= config.maxDepth)
            => UNCHANGED <<queue, playing, currentProc, procs, drains,
                           dequeueLog, stopLog>>]_vars

C16_Witness ==
    /\ config.maxDepth = 1
    /\ Len(enqueueLog) = 3
    /\ Depth = 1
    /\ queue[1].ref = 2
    /\ currentProc # None
    /\ Len(dequeueLog) = 1

\* C17: an item older than maxAgeMs when the drain shifts it is skipped:
\* no player is spawned for its file, and in the same step the drain goes
\* on to the next item, or ends if there is none. Only the last item a
\* drain step shifts can be one it plays.
C17_StaleItemsAreSkipped ==
    [][/\ \A i \in 1..Len(NewlyDequeued) :
             LET e == NewlyDequeued[i]
             IN  /\ now - e.item.enqueuedAt > config.maxAgeMs
                      => /\ e.outcome = "stale"
                         /\ \A p \in 1..Len(procs') :
                              procs'[p].filePath # e.item.filePath
                 /\ e.outcome = "stale"
                      => \/ i < Len(NewlyDequeued)
                         \/ queue' = << >> /\ ~playing'
                 /\ i < Len(NewlyDequeued) => e.outcome = "stale"
       /\ Len(NewlySpawned)
            = Cardinality({i \in 1..Len(NewlyDequeued) :
                             NewlyDequeued[i].outcome = "spawned"})]_vars

C17_Witness ==
    \E i \in 1..Len(dequeueLog) - 1 :
        /\ dequeueLog[i].outcome = "stale"
        /\ dequeueLog[i].item.enqueuedAt > 0
        /\ dequeueLog[i + 1].outcome = "spawned"
        /\ dequeueLog[i + 1].at = dequeueLog[i].at
        /\ currentProc # None
        /\ procs[currentProc[1]].filePath = dequeueLog[i + 1].item.filePath
        /\ \A p \in 1..Len(procs) :
              procs[p].filePath # dequeueLog[i].item.filePath

\* C18: at most one drain is active and at most one player is awaited; a
\* player that is neither exited nor killed is the one being awaited; items
\* are shifted in the order they were enqueued; and a step spawns at most
\* one player, every earlier player having exited or been killed.
C18_OneClipAtATimeInOrder ==
    /\ [](Len(drains) <= 1)
    /\ [](Cardinality(Awaited) <= 1)
    /\ [](\A p \in 1..Len(procs) :
            (procs[p].state = "running" /\ ~procs[p].killed)
              => (p = Len(procs) /\ drains = <<p>>))
    /\ [](\A i, j \in 1..Len(dequeueLog) :
            i < j => dequeueLog[i].item.ref < dequeueLog[j].item.ref)
    /\ [][Len(procs') > Len(procs)
            => /\ Len(procs') = Len(procs) + 1
               /\ \A p \in 1..Len(procs) :
                    procs'[p].state = "exited" \/ procs'[p].killed]_vars

C18_Witness ==
    /\ Len(procs) = 2
    /\ procs[1].state = "exited" /\ ~procs[1].killed
    /\ procs[2].state = "running" /\ ~procs[2].killed
    /\ procs[1].filePath = enqueueLog[1].filePath
    /\ procs[2].filePath = enqueueLog[2].filePath
    /\ drains = <<2>>
    /\ Depth = 1 /\ queue[1].ref = 3

\* C19: playing is true exactly while a drain is suspended at its await,
\* so a drain that ends, however it ends, leaves playing false; nothing is
\* pending while no drain is active; and an enqueue made while playing is
\* false is taken up by a new drain at once.
C19_PlayingFalseWhenDrainEnds ==
    /\ [](playing <=> drains # << >>)
    /\ [](~playing => queue = << >>)
    /\ [][(enqueueLog' # enqueueLog /\ ~playing)
            => /\ NewlyDequeued # << >>
               /\ NewlyDequeued[1].item = enqueueLog'[Len(enqueueLog')]
               /\ playing' <=> NewlyDequeued[1].outcome # "stale"]_vars

C19_Witness ==
    /\ ~IsPlaying
    /\ Len(dequeueLog) = 2
    /\ dequeueLog[1].outcome = "spawned"
    /\ procs[1].state = "exited" /\ procs[1].killed
    /\ dequeueLog[2].outcome = "spawn_failed"
    /\ drains = << >>

\* C21: a call of stop() leaves the queue empty and no player handle held,
\* and has killed the player that was in flight; and an item that was
\* pending when stop() was called is never shifted by a drain and never
\* gets a player.
C21_StopDropsPendingAndKillsPlayer ==
    /\ [][(\/ stopLog' # stopLog
           \/ /\ drains' = drains
              /\ \E p \in 1..Len(procs) : procs'[p].killed /\ ~procs[p].killed)
            => /\ Depth' = 0
               /\ currentProc' = None
               /\ currentProc # None => procs'[currentProc[1]].killed
               /\ stopLog' = stopLog \cup {queue[i].ref : i \in 1..Len(queue)}
               /\ UNCHANGED <<dequeueLog, drains, playing>>]_vars
    /\ [](\A r \in stopLog :
            /\ \A i \in 1..Len(dequeueLog) : dequeueLog[i].item.ref # r
            /\ \A i \in 1..Len(queue) : queue[i].ref # r
            /\ \A p \in 1..Len(procs) :
                 procs[p].filePath # enqueueLog[r].filePath)

C21_Witness ==
    /\ stopLog = {2}
    /\ Len(procs) = 2
    /\ procs[1].killed /\ procs[1].filePath = enqueueLog[1].filePath
    /\ procs[2].filePath = enqueueLog[3].filePath
    /\ currentProc = Some(2)

-----------------------------------------------------------------------------
(* Properties of the playback queue, checked under SpecVoiceLive *)

\* Player p is being awaited and its maxPlayMs deadline lies within the
\* horizon of the clock.
Hanging(p) ==
    /\ p \in Awaited
    /\ procs[p].spawnedAt + config.maxPlayMs <= MaxLiveTick

Released(p) ==
    /\ p \in 1..Len(procs)
    /\ p \notin Awaited
    /\ procs[p].state = "exited" \/ procs[p].killed

\* C20: a drain stops awaiting a player that has not exited only when
\* maxPlayMs have passed since the spawn, and then the player is killed
\* and in the same step the drain shifts the next pending item, or ends
\* with playing false if nothing is pending; and a player that is awaited
\* is eventually released (exited or killed), so the drain is not stalled
\* for ever.
C20_HungPlayerIsKilledAtMaxPlayMs ==
    /\ [][\A p \in Awaited :
             (p \notin {drains'[d] : d \in 1..Len(drains')}
               /\ procs'[p].state = "running")
               => /\ now - procs[p].spawnedAt >= config.maxPlayMs
                  /\ procs'[p].killed
                  /\ IF queue # << >>
                     THEN /\ NewlyDequeued # << >>
                          /\ NewlyDequeued[1].item = Head(queue)
                     ELSE ~playing' /\ drains' = << >>]_vars
    /\ \A p \in 1..MaxLiveEnqueues : Hanging(p) ~> Released(p)

C20_Witness ==
    /\ Len(procs) = 2
    /\ procs[1].state = "running" /\ procs[1].killed
    /\ procs[2].state = "running" /\ ~procs[2].killed
    /\ procs[2].spawnedAt = procs[1].spawnedAt + config.maxPlayMs
    /\ drains = <<2>>
    /\ currentProc = Some(2)

-----------------------------------------------------------------------------
(* Properties of the journal, checked under SpecJournal *)

\* The bytes of all the files of the journal
RECURSIVE BytesUpTo(_, _)
BytesUpTo(j, i) ==
    (IF j[i] = None THEN 0 ELSE j[i][1]) + (IF i = 0 THEN 0 ELSE BytesUpTo(j, i - 1))

Footprint == BytesUpTo(journal, MAX_ROTATED_FILES + 1)

\* The push of this step did not get its line into the active file.
LineMissing ==
    journal'[0] = None \/ journal'[0] = journal[0]

\* C29: a push whose append fails still puts the envelope into the ring
\* buffer, where query finds it as the newest one, and raises persistErrors
\* by exactly 1; a push whose line reaches the journal leaves persistErrors
\* alone, also when the rotation before it failed; a warning is written
\* only for a failed append, and any two warnings are at least 30 s apart.
C29_PersistFailureIsCountedNotThrown ==
    /\ [][pushLog' # pushLog
            => /\ Len(pushLog') = Len(pushLog) + 1
               /\ Last(1)' = <<pushLog'[Len(pushLog')]>>
               /\ Size' = Min(Size + 1, capacity)
               /\ persistErrors' = persistErrors + (IF LineMissing THEN 1 ELSE 0)
               /\ warnLog' # warnLog
                    => /\ LineMissing
                       /\ warnLog' = Append(warnLog, DateNow)]_vars
    /\ [](\A i, k \in 1..Len(warnLog) :
            i < k => warnLog[k] - warnLog[i] >= PERSIST_WARN_INTERVAL_MS)

C29_Witness ==
    /\ Len(pushLog) = 3
    /\ Size = 3
    /\ persistErrors = 2
    /\ Len(warnLog) = 1
    /\ FileSize(journal) > MAX_JSONL_BYTES + LargeLine

\* C30: the journal never has a file beyond suffix 5, its files never take
\* more than 6 x 10 MiB together, and a push that finds the active file at
\* 10 MiB or more and appends its line has rotated the file first.
C30_JournalFootprintIsBounded ==
    /\ [](\A i \in Suffixes : i > MAX_ROTATED_FILES => journal[i] = None)
    /\ [](Footprint <= MAX_JSONL_BYTES * (MAX_ROTATED_FILES + 1))
    /\ [][(pushLog' # pushLog /\ FileSize(journal) >= MAX_JSONL_BYTES
             /\ ~LineMissing)
            => journal'[1] = journal[0]]_vars

-----------------------------------------------------------------------------
(* Properties of the client, checked under SpecClient *)

\* This step is a ws.onclose that set a reconnect timer.
Scheduled == Len(timers') = Len(timers) + 1

LiveSockets == {s \in 1..Len(sockets) : sockets[s] \in {"connecting", "open"}}

PendingTimers == {t \in 1..Len(timers) : timers[t] = "pending"}

\* C22: from one close to the next with no open in between the reconnect
\* delay does not go down (delays at or beyond the cap counting as the cap);
\* an open sets attempt to 0; and the first delay after an open, like the
\* first delay of all, is the base delay plus a jitter below 1000 ms.
C22_DelaysGrowUntilOpenResets ==
    /\ [][(Scheduled /\ closesSinceOpen >= 1)
            => lastDelay'[1] >= Min(lastDelay[1], MAX_RECONNECT_DELAY_MS)]_vars
    /\ [][(\E s \in 1..Len(sockets) :
              sockets[s] = "connecting" /\ sockets'[s] = "open")
            => attempt' = 0]_vars
    /\ [][(Scheduled /\ closesSinceOpen = 0)
            => (lastDelay'[1] - Min(clientOpts.reconnectDelay,
                                    MAX_RECONNECT_DELAY_MS)) \in 0..999]_vars

\* C23: every delay handed to setTimeout is
\* min(reconnectDelay * 2^attempt + jitter, 30 000) for a jitter of
\* [0, 1000), and so never more than 30 000 ms.
C23_DelayIsCappedAfterJitter ==
    /\ [][Scheduled
            => \E jitter \in 0..999 :
                 lastDelay'[1] =
                   Min(clientOpts.reconnectDelay * Pow2(attempt) + jitter,
                       MAX_RECONNECT_DELAY_MS)]_vars
    /\ [](lastDelay # None => lastDelay[1] <= MAX_RECONNECT_DELAY_MS)

\* C24: at any time at most one socket of the client is connecting or open,
\* and it is the one ws names; at most one reconnect timer is pending, and
\* it is the one reconnectTimer names.
C24_OneSocketOneTimer ==
    /\ Cardinality(LiveSockets) <= 1
    /\ Cardinality(PendingTimers) <= 1
    /\ \A s \in LiveSockets : ws = Some(s)
    /\ \A t \in PendingTimers : reconnectTimer = Some(t)

C24_Witness ==
    /\ sockets = <<"closed", "closed", "open">>
    /\ timers = <<"fired", "fired">>
    /\ attempt = 0
    /\ callbacks = 1

\* C25: once close() has been called the client stays closed, creates no
\* further WebSocket and has no pending reconnect timer, whatever events
\* of its sockets arrive afterwards.
C25_CloseIsTerminal ==
    /\ [](closed => PendingTimers = {} /\ LiveSockets = {} /\ ws = None)
    /\ [][closed => /\ closed'
                    /\ Len(sockets') = Len(sockets)
                    /\ Len(timers') = Len(timers)]_vars

C25_Witness ==
    /\ closed
    /\ timers = <<"fired", "cleared">>
    /\ sockets = <<"closed", "closed">>
    /\ callbacks = 1

-----------------------------------------------------------------------------
(* Properties of the emitter, checked under SpecEmit and SpecEmitLive *)

\* Call c returns in this step.
Returns(c) == calls[c].state # "returned" /\ calls'[c].state = "returned"

\* C26: the promise of an emitEvent call is never rejected; a call that has
\* returned has no pending abort timer; no call is still under way after
\* its 500 ms deadline; and every call returns, whether the server
\* answers, refuses the connection or stays silent.
C26_EmitAlwaysCompletes ==
    /\ [](\A c \in 1..Len(calls) :
            IF calls[c].state = "returned"
            THEN calls[c].settled = "fulfilled" /\ calls[c].timer # "pending"
            ELSE /\ calls[c].settled = "pending"
                 /\ now <= calls[c].startedAt + AbortAfter)
    /\ \A c \in 1..MaxCalls :
         (Len(calls) >= c) ~> (Len(calls) >= c /\ calls[c].state = "returned")

C26_Witness ==
    /\ Len(calls) = 3
    /\ \A c \in 1..3 : calls[c].state = "returned"
    /\ calls[1].result = "timeout" /\ calls[1].timer = "fired"
    /\ calls[2].result = "network" /\ calls[2].timer = "cleared"
    /\ calls[3].status = 201 /\ calls[3].timer = "cleared"

\* C27: a call that returns sets the failure counter to 0 when the POST
\* was answered with a 2xx status and raises it by one otherwise (network
\* error, timeout, other status); nothing else changes the counter.
C27_CounterTracksSuccess ==
    /\ [][\A c \in 1..Len(calls) :
            Returns(c)
              => IF calls'[c].status \in 200..299
                 THEN emitFailures' = 0
                 ELSE emitFailures' = emitFailures + 1]_vars
    /\ [][emitFailures' # emitFailures
            => \E c \in 1..Len(calls) : Returns(c)]_vars

\* C28: any two failure lines on stderr are at least 30 s apart; a failed
\* call writes a line when no line has been written yet or the last one is
\* 30 s or more old, and writes none otherwise.
C28_FailureLogIsRateLimited ==
    /\ [](\A i, k \in 1..Len(emitLog) :
            i < k => emitLog[k].at - emitLog[i].at
                       >= EMIT_FAILURE_LOG_INTERVAL_MS)
    /\ [][emitFailures' = emitFailures + 1
            => IF \/ emitLog = << >>
                  \/ DateNow - emitLog[Len(emitLog)].at
                       >= EMIT_FAILURE_LOG_INTERVAL_MS
               THEN emitLog' = Append(emitLog, [at |-> DateNow,
                                                failures |-> emitFailures'])
               ELSE emitLog' = emitLog]_vars
    /\ [][emitLog' # emitLog => emitFailures' = emitFailures + 1]_vars

C28_Witness ==
    /\ Len(emitLog) = 2
    /\ emitLog[1].failures = 1
    /\ emitLog[2].failures = 3
    /\ emitLog[2].at - emitLog[1].at = EMIT_FAILURE_LOG_INTERVAL_MS
    /\ \E c, d \in 1..Len(calls) :
         /\ c # d
         /\ calls[c].startedAt = calls[d].startedAt
         /\ calls[c].result = "network"
         /\ calls[d].result = "timeout"

-----------------------------------------------------------------------------
(* Properties of the hook route by name, checked under SpecNames *)

\* The table of the five known names, as the specification gives it
CanonicalType(name) ==
    CASE name = <<"session", "-", "start">> -> <<"hook", ".", "session_start">>
      [] name = <<"pre", "-", "tool", "-", "use">>
           -> <<"hook", ".", "pre_tool_use">>
      [] name = <<"post", "-", "tool", "-", "use">>
           -> <<"hook", ".", "post_tool_use">>
      [] name = <<"post", "-", "tool", "-", "use", "-", "failure">>
           -> <<"hook", ".", "post_tool_use_failure">>
      [] name = <<"stop">> -> <<"hook", ".", "stop">>
      [] OTHER -> <<"hook", ".">> \o
                    [i \in 1..Len(name) |-> IF name[i] = "-" THEN "_" ELSE name[i]]

\* C31: the envelope a POST /events/:name stores has the canonical type of
\* the table for the five known names and "hook." followed by the name with
\* every '-' replaced by '_' for every other name.
C31_TypeFollowsEventName ==
    [][\A name \in PathNames, req \in NamedRequests :
         (HandleHookEvent(name, req) /\ Len(accepted') = Len(accepted) + 1)
           => accepted'[Len(accepted')].type = CanonicalType(name)]_vars

-----------------------------------------------------------------------------
(* Properties of the previews, checked under SpecIngress *)

\* The i-th character of a run-length encoded string
RECURSIVE CharAt(_, _)
CharAt(s, i) ==
    IF i <= Head(s).n THEN Head(s).ch ELSE CharAt(Tail(s), i - Head(s).n)

\* The preview is what the claim says it is for the value the hook sent.
IsPreviewOf(preview, value) ==
    LET text == JsonText(IF value = Undefined \/ value = JNull
                         THEN JStr(<< >>) ELSE value)
    IN  IF RunLength(text) > TRUNCATE_MAX_LEN
        THEN /\ preview.k = "string"
             /\ RunLength(preview.v) = TRUNCATE_MAX_LEN + 3
             /\ \A i \in 1..TRUNCATE_MAX_LEN :
                  CharAt(preview.v, i) = CharAt(text, i)
             /\ \A i \in 1..3 : CharAt(preview.v, TRUNCATE_MAX_LEN + i) = "."
        ELSE preview = value

\* C32: the toolInputPreview of a pre-tool-use envelope and the
\* toolResultPreview of a post-tool-use envelope are the value the hook
\* sent when its JSON text has at most 2000 characters, and otherwise the
\* first 2000 characters of that text followed by "...".
C32_PreviewIsTruncatedOrUnchanged ==
    [][\A req \in HookRequests :
         LET grown == Len(accepted') = Len(accepted) + 1
             data == accepted'[Len(accepted')].data.v
         IN  /\ (HandleHookEvent(<<"pre", "-", "tool", "-", "use">>, req) /\ grown)
                  => IsPreviewOf(data.toolInputPreview,
                                 Get(req.parsed.v, "tool_input"))
             /\ (HandleHookEvent(<<"post", "-", "tool", "-", "use">>, req) /\ grown)
                  => IsPreviewOf(data.toolResultPreview,
                                 Get(req.parsed.v, "tool_result"))]_vars

\* Three envelopes would be needed to see every case at once; one state
\* shows an object cut to a string of 2003 characters.
C32_Witness ==
    /\ Len(accepted) = 1
    /\ accepted[1].type = <<"hook", ".", "pre_tool_use">>
    /\ accepted[1].data.v.toolName = JStr(<<"Bash">>)
    /\ accepted[1].data.v.toolInputPreview.k = "string"
    /\ RunLength(accepted[1].data.v.toolInputPreview.v) = TRUNCATE_MAX_LEN + 3
    /\ CharAt(accepted[1].data.v.toolInputPreview.v, 1) = "{"

-----------------------------------------------------------------------------
(* Properties of the envelope factory, checked under SpecFactory *)

\* C33: an envelope of createEvent carries the correlationId of its context
\* when that is a non-empty string, and otherwise a generated token that no
\* other envelope carries; its correlationId is never the empty string.
C33_CorrelationIdIsNeverEmpty ==
    \A i \in 1..Len(created) :
      LET given == created[i].context.correlationId
          cid == created[i].event.correlationId
      IN  /\ cid # << >>
          /\ IF given # None /\ given # Some(<< >>)
             THEN cid = given[1]
             ELSE \A k \in 1..Len(created) :
                    k # i => created[k].event.correlationId # cid

-----------------------------------------------------------------------------
(* Properties of the history route, checked under SpecHistory *)

\* C34: the answer of GET /events holds at most 1000 envelopes whatever
\* ?limit= says and at most 100 when ?limit= is absent, and they are the
\* newest of the envelopes passing the filters, in the order of the store.
C34_GetEventsIsBounded ==
    response.route = "GET /events"
      => /\ Len(response.body) <= MAX_LIMIT
         /\ response.request.limit = None => Len(response.body) <= DEFAULT_LIMIT
         /\ response.body =
              LastN(Passing(response.request.type, response.request.since),
                    Len(response.body))

-----------------------------------------------------------------------------
(* Properties of the voice route, checked under SpecNotify *)

\* The clip the request would enqueue is in the queue or was taken from it.
ClipEnqueued ==
    LET ref == Len(enqueueLog) + 1
    IN  \/ \E i \in 1..Len(queue') : queue'[i].ref = ref
        \/ \E i \in 1..Len(dequeueLog') : dequeueLog'[i].item.ref = ref

\* C35: every POST /voice/notify is answered with queued:true and a label
\* and text, with queued:false and one of the three reasons, or with 400
\* invalid_body; the handler never throws; and the clip is enqueued exactly
\* when the answer says queued:true.
C35_NotifyAnswersAndNeverThrows ==
    [][\A parsed \in NotifyBodies :
         HandleVoiceNotify(parsed) =>
           /\ ~response'.threw
           /\ \/ /\ response'.status = 200
                 /\ response'.body.queued
                 /\ DOMAIN response'.body = {"queued", "label", "text"}
              \/ /\ response'.status = 200
                 /\ ~response'.body.queued
                 /\ response'.body.reason \in
                      {"voice_disabled", "unknown_agent", "not_cached"}
              \/ /\ response'.status = 400
                 /\ response'.body = NotQueued("invalid_body")
           /\ response'.body.queued <=> ClipEnqueued]_vars

-----------------------------------------------------------------------------
(* Concurrent starts, checked under SpecLifecycle *)

\* Processes whose startServer call has returned a server and whose signal
\* handler has not run
Registered == {p \in DOMAIN servers : servers[p].state = "listening"}

\* C36: however the startServer calls of two processes interleave, at most
\* one of them is bound and registered, the call that loses to a server
\* that is starting or serving fails with the already-running error and
\* not with the error of the bind, and the discovery files are those the
\* one registered server wrote (its port, its pid, its nonce).
C36_OneServerPerDirectory ==
    /\ Cardinality(Registered) <= 1
    /\ startResult.outcome = "EADDRINUSE"
         => ~\E q \in DOMAIN servers :
                /\ servers[q].state \in {"bound", "listening"}
                /\ servers[q].port = startResult.port
    /\ \A p \in Registered :
         /\ OwnedBy(files, p)
         /\ files["events.port"][1].text = StringOfNat(servers[p].port)

-----------------------------------------------------------------------------
(* Properties of concurrent ingress, checked under SpecConcurrent *)

\* A sequence with each run of equal neighbours reduced to one element
RECURSIVE Collapse(_)
Collapse(seq) ==
    IF Len(seq) < 2 THEN seq
    ELSE IF seq[1] = seq[2] THEN Collapse(Tail(seq))
    ELSE <<seq[1]>> \o Collapse(Tail(seq))

\* The envelopes that entered the store since c joined and that a topic of
\* c carries, in the order of the store
StoredSince(c) ==
    LET since == SubSeq(pushLog, conns[c].joined + 1, Len(pushLog))
        carried == SelectSeq(since,
                     LAMBDA e : \/ EventsAll \in conns[c].topics
                                \/ TypedTopic(e.type) \in conns[c].topics)
    IN  [i \in 1..Len(carried) |-> JsonStringify(carried[i])]

\* C37: however the ingress requests interleave, what each topic has
\* published is, in every state, what has entered the store in the order
\* of the store: no envelope is in the store and not yet published, and no
\* envelope's publishes come after a later envelope's.
C37_PublishOrderIsStoreOrder ==
    \A c \in DOMAIN conns :
        conns[c].state = "open" => Collapse(conns[c].inbox) = StoredSince(c)

C37_Witness ==
    /\ Len(inflight) >= 2
    /\ inflight[1].req = Request(None, 64, JObj(PartialBody(<<"all">>)))
    /\ inflight[2].req = Request(None, 64,
                                 JObj(PartialBody(<<"worktree", ".", "deleted">>)))
    /\ inflight[1].state = "answered"
    /\ inflight[2].state = "answered"
    /\ Len(pushLog) = 2
    /\ pushLog[1].type = <<"worktree", ".", "deleted">>
    /\ \E c \in DOMAIN conns :
         /\ conns[c].state = "open"
         /\ conns[c].topics = {EventsAll}
         /\ Len(conns[c].inbox) = 2

-----------------------------------------------------------------------------
(* Properties of the dashboard's buffer, checked under SpecDash *)

\* C38: the buffer of useEventStream never holds two envelopes with the
\* same id.
C38_BufferHoldsEachIdOnce ==
    \A i, j \in 1..Len(events) : i # j => events[i] # events[j]

-----------------------------------------------------------------------------
(* The emitter's view of discovery, checked under SpecDiscovery *)

\* C39: on every discovery directory isEventServerRunning() returns what
\* readEventServerPort() returns: null, or the same port in 1..65535.
C39_EmitterAgreesWithServer ==
    \A running \in IsEventServerRunning(files) :
        /\ running = ReadEventServerPort(files).port
        /\ running # None => (running[1] >= 1 /\ running[1] <= 65535)

-----------------------------------------------------------------------------
(* Properties of the health route, checked under SpecHealth *)

\* The WebSocket connections that are open
Connected == {c \in DOMAIN conns : conns[c].state = "open"}

\* C40: wsClients of GET /health is the number of WebSocket subscribers
\* connected at that moment, with or without a type filter.
C40_WsClientsCountsAllSubscribers ==
    [][HandleGetHealth => response'.wsClients = Cardinality(Connected)]_vars

=============================================================================
